---- MODULE Spec2Model ----
(***************************************************************************)
(* Model of the per-session state machine of the POP3 proxy                *)
(* (POP3filter/src/pop3.c).  One session is modelled together with its     *)
(* two peers: the client that sends commands and the origin server that    *)
(* answers them.  Bytes are modelled as atoms: one atom per protocol line  *)
(* or line part (a verb, a line end, a status line, a capability line, a   *)
(* body line, the multi-line terminator).  recv and send move any          *)
(* non-empty run of atoms, so partial reads and partial sends happen.      *)
(***************************************************************************)
EXTENDS Integers, Sequences, FiniteSets, TLC

\* ------------------------------------------------------------------ bounds
\* number of commands a client sends in one session
MaxCmds == 3

\* the acceptor holds at most MaxSessions sessions at a time
MaxSessions == 3

\* max_pool, the cap of the free-list
max_pool == 50

\* the client sends at most MaxValid valid commands
MaxValid == 2

\* ------------------------------------------------------- program constants
MAX_CONCURRENT_INVALID_COMMANDS == 3

\* capacity of an I/O buffer, in atoms
BUFFER_SIZE == 6

\* the number of times a send to the origin may accept fewer bytes than it
\* was given
MaxShortWrites == 1

\* -------------------------------------------------------------- vocabulary
ValidVerbs   == {"user", "pass", "capa", "retr", "quit"}
InvalidVerbs == {"unknown", "cmdlong", "paramlong"}
Verbs        == ValidVerbs \cup InvalidVerbs

\* the capability lists an origin may answer CAPA with
OriginCapas == {<<"cap">>, <<"cap", "PIPE">>, <<"pipe">>}

Terminal(st) == st \in {"DONE", "ERROR"}

Take(s, n) == SubSeq(s, 1, n)
Drop(s, n) == SubSeq(s, n + 1, Len(s))

\* what a command looks like on the wire: the verb (with its arguments)
\* and the line end
Wire(v) == <<v, "nl">>

\* the bytes of n client commands; what a command line says is settled when
\* the request parser reads it
RECURSIVE ClientLines(_)
ClientLines(n) == IF n = 0 THEN <<>> ELSE <<"line", "nl">> \o ClientLines(n - 1)

\* ------------------------------------------------------------ byte buffer
buffer_can_read(b) == b # <<>>

\* ------------------------------------------------------------------ queue
\* a request: the verb and the number of the client command it came from
\* (0 for the CAPA the proxy itself sends)
new_request(v, n) == [cmd |-> v, seq |-> n]

NoRequest == [cmd |-> "none", seq |-> 0]

queue_add(q, r) == Append(q, r)

queue_is_empty(q) == q = <<>>

queue_peek(q) == IF q = <<>> THEN NoRequest ELSE Head(q)

\* the requests a traversal with queue_get_next still yields: those at and
\* after the cursor
queue_rest(q, cur) == SubSeq(q, cur, Len(q))

\* ---------------------------------------------------------- request parser
request_parser_init == [state |-> "request_cmd", cmd |-> "none"]

RequestErrors == {"request_error", "request_error_cmd_too_long",
                  "request_error_param_too_long"}

request_line_state(v) ==
    CASE v \in ValidVerbs -> "request_done"
      [] v = "cmdlong"    -> "request_error_cmd_too_long"
      [] v = "paramlong"  -> "request_error_param_too_long"
      [] OTHER            -> "request_error"

\* v is what the line being read says
request_parser_feed(p, c, v) ==
    IF c = "nl"
    THEN [state |-> request_line_state(p.cmd), cmd |-> p.cmd]
    ELSE [state |-> "request_cmd", cmd |-> v]

request_is_done(st) == st = "request_done" \/ st \in RequestErrors

\* feeds the parser from the buffer until a command line is complete or the
\* buffer is empty
RECURSIVE request_consume(_, _, _)
request_consume(b, p, v) ==
    IF ~buffer_can_read(b) THEN [b |-> b, p |-> p]
    ELSE LET q == request_parser_feed(p, Head(b), v)
         IN  IF request_is_done(q.state)
             THEN [b |-> Tail(b), p |-> q]
             ELSE request_consume(Tail(b), q, v)

request_marshall(r) == Wire(r.cmd)

\* --------------------------------------------------------- response parser
response_parser_init ==
    [state |-> "response_status_indicator", first_line_done |-> FALSE,
     status |-> "none", capa_response |-> <<>>]

response_parser_feed(p, cmd, c) ==
    CASE p.state = "response_status_indicator" ->
            IF c \in {"ok", "err"}
            THEN [state |-> IF c = "ok" /\ cmd = "retr" THEN "response_mail"
                            ELSE IF c = "ok" /\ cmd = "capa" THEN "response_capa"
                            ELSE "response_done",
                  first_line_done |-> TRUE,
                  status |-> c,
                  capa_response |-> IF cmd = "capa" THEN <<c>> ELSE <<>>]
            ELSE [p EXCEPT !.state = "response_error"]
      [] p.state = "response_mail" ->
            IF c = "dot" THEN [p EXCEPT !.state = "response_done"] ELSE p
      [] p.state = "response_capa" ->
            [p EXCEPT !.state = IF c = "dot" THEN "response_done" ELSE @,
                      !.capa_response = Append(@, c)]
      [] OTHER -> p

response_is_done(st) == st \in {"response_done", "response_error"}

\* moves bytes from rb through the parser into wb until the response or
\* its first line is complete, or rb is empty
RECURSIVE response_consume(_, _, _, _)
response_consume(rb, wb, p, cmd) ==
    IF ~buffer_can_read(rb) \/ response_is_done(p.state)
    THEN [rb |-> rb, wb |-> wb, p |-> p]
    ELSE LET q == response_parser_feed(p, cmd, Head(rb))
         IN  IF q.state = "response_error"
             THEN [rb |-> Tail(rb), wb |-> wb, p |-> q]
             ELSE IF response_is_done(q.state) \/ q.first_line_done
             THEN [rb |-> Tail(rb), wb |-> Append(wb, Head(rb)), p |-> q]
             ELSE response_consume(Tail(rb), Append(wb, Head(rb)), q, cmd)

\* ----------------------------------------------------------- to_upper/strstr
\* toupper as it would be if it left the byte alone
to_upper_byte_same(c) == c

to_upper_byte(c) ==
    CASE c = "pipe" -> "PIPE"
      [] c = "cap"  -> "CAP"
      [] OTHER      -> c

to_upper(str) == [i \in 1..Len(str) |-> to_upper_byte(str[i])]

\* strstr(capabilities, "PIPELINING") != NULL
has_needle(str) == \E i \in 1..Len(str) : str[i] = "PIPE"

VARIABLES
    state,                        \* stm.current
    client_interest,              \* selector interest of client_fd
    origin_interest,              \* selector interest of origin_fd
    origin_fd,                    \* "none" (-1) or "sock"
    resolver,                     \* resolver worker: idle / running / notified
    origin_resolution,            \* "null" or "addr"
    read_buffer,                  \* unread bytes of struct pop3.read_buffer
    read_buffer_pos,              \* write offset of read_buffer
    write_buffer,                 \* unread bytes of struct pop3.write_buffer
    super_buffer,                 \* unread bytes of struct pop3.super_buffer
    request_queue,                \* session.request_queue
    queue_current,                \* traversal cursor of the queue
    pipelining,                   \* session.pipelining
    concurrent_invalid_commands,  \* session.concurrent_invalid_commands
    session_state,                \* session.state (phase)
    request_parser,               \* client.request.request_parser
    response_request,             \* orig.response.request
    response_parser,              \* orig.response.response_parser
    et_activated,                 \* parameters->et_activated
    filter_command,               \* parameters->filter_command ("null" or "cmd")
    clientNet,                    \* bytes the client has sent, not yet read
    clientRecv,                   \* bytes the client has received of the response
                                  \* being delivered to it
    clientDone,                   \* "no" while the response is being delivered,
                                  \* else what the completed response answered
    originNet,                    \* bytes the origin has sent, not yet read
    originLine,                   \* the incomplete command line the origin holds
    originLines,                  \* number of command lines the origin received
    originFirst,                  \* verb of the first line the origin received
    toOrigin,                     \* bytes of the valid commands parsed from the
                                  \* client, not yet written to the origin
    originExtra,                  \* bytes written to the origin that were not
                                  \* the next bytes of toOrigin
    outstanding,                  \* client commands the origin received whose
                                  \* response has not been delivered
    shortWrites,                  \* short writes to the origin so far
    capaLeft,                     \* bytes of the answer to the proxy's CAPA that
                                  \* the proxy has not received yet
    write_buffer_pos,             \* write offset of write_buffer in its storage
    originCapa,                   \* the origin's capability list
    vocabulary,                   \* the verbs the client sends, those the origin may refuse
    nParsed,                      \* number of client commands processed
    nValid,                       \* number of valid client commands processed
    invalidRun,                   \* invalid commands processed since the last
                                  \* valid one
    respLog,                      \* command numbers in the order their responses completed
    last,                         \* name and outcome of the last handler run
    et,                           \* struct external_transformation
    extern_read_buffer,           \* unread bytes of struct pop3.extern_read_buffer
    ext_read_interest,            \* selector interest of extern_read_fd, or "unreg"
    ext_write_interest,           \* selector interest of extern_write_fd, or "unreg"
    extern_read_fd,               \* the descriptor struct pop3.extern_read_fd names
    extern_write_fd,              \* the descriptor struct pop3.extern_write_fd names
    childOut,                     \* bytes the filter has written, not yet read
    childExit,                    \* whether the filter has closed its output
    concurrent_connections,       \* metricas->concurrent_connections
    references,                   \* struct pop3.references
    registered,                   \* sockets the selector holds for the session
    released,                     \* whether the record is on the free-list or freed
    pool,                         \* the free-list of struct pop3 records
    pool_size,                    \* the counter pool_size
    sessions,                     \* number of struct pop3 records in use
    retrieved_messages,           \* metricas->retrieved_messages
    transferred_bytes,            \* metricas->transferred_bytes
    retrBytes,                    \* bytes the client was sent in RESPONSE for a
                                  \* RETR and in EXTERNAL_TRANSFORMATION
    episode,                      \* the current filter run: whether the filter
                                  \* was spawned, whether it has written, and
                                  \* the bytes written to its input
    originClosed,                 \* whether the origin has closed the connection
    management_interest,          \* the management connection: "none" when there
                                  \* is none, else the selector interest of its
                                  \* descriptor; "crashed" once the process has
                                  \* been killed by an invalid memory access
    mgmt_status,                  \* struct management.status
    mgmt_error,                   \* struct management.error
    mgmt_argc,                    \* struct management.argc
    mgmt_cmd,                     \* struct management.cmd: the words it points to
    mgmt_user,                    \* struct management.user
    replacement_msg,              \* parameters->replacement_msg
    filtered_media_types,         \* parameters->filtered_media_types
    reply,                        \* the last reply sent on the management
                                  \* connection
    prev                          \* the last two commands parse_config has
                                  \* handled in a row on the connection, each
                                  \* with the configuration it found and the
                                  \* reply it sent

vars == <<state, client_interest, origin_interest, origin_fd, resolver,
          origin_resolution, read_buffer, read_buffer_pos, write_buffer,
          super_buffer,
          request_queue, queue_current, pipelining,
          concurrent_invalid_commands, session_state, request_parser,
          response_request, response_parser, et_activated, filter_command,
          clientNet, clientRecv, clientDone, originNet, originLine,
          originLines, originFirst, toOrigin, originExtra, outstanding,
          shortWrites, capaLeft,
          write_buffer_pos, originCapa, vocabulary, nParsed, nValid, invalidRun,
          respLog,
          last,
          et, extern_read_buffer,
          ext_read_interest, ext_write_interest, extern_read_fd,
          extern_write_fd, childOut, childExit,
          concurrent_connections, references, registered, released,
          retrieved_messages, transferred_bytes,
          retrBytes, episode, originClosed,
          management_interest, mgmt_status, mgmt_error, mgmt_argc, mgmt_cmd,
          mgmt_user, replacement_msg, filtered_media_types, reply, prev,
          pool, pool_size, sessions>>

\* the free-list of session records and the records in use
poolVars == <<pool, pool_size, sessions>>

\* the management connection, and the configuration only the management
\* channel writes
managementVars == <<management_interest, mgmt_status, mgmt_error, mgmt_argc,
                    mgmt_cmd, mgmt_user, replacement_msg,
                    filtered_media_types, reply, prev>>

\* the origin server and what it has been sent
originVars == <<originNet, originLine, originLines, originFirst, toOrigin,
                originExtra, outstanding, capaLeft>>

\* the client's view
clientVars == <<clientRecv, clientDone>>

etVars == <<et, extern_read_buffer, ext_read_interest, ext_write_interest,
            extern_read_fd, extern_write_fd, childOut, childExit, episode>>

\* the counters of the management channel other than the connection count
metricVars == <<retrieved_messages, transferred_bytes, retrBytes>>

\* no filter run yet
episode_none == [spawned |-> FALSE, wrote |-> FALSE, toChild |-> <<>>]

\* struct external_transformation as memset leaves it in pop3_new
et_zero ==
    [status |-> "et_status_ok", finish_wr |-> FALSE, finish_rd |-> FALSE,
     error_wr |-> FALSE, error_rd |-> FALSE, did_write |-> FALSE,
     write_error |-> FALSE, send_bytes_write |-> 0, send_bytes_read |-> 0]

\* what a pointer that was never set points to
garbage == <<"garbage">>

\* nothing has been sent on the management connection yet
no_reply == [kind |-> "none", text |-> "none", list |-> <<>>]

\* parse_config has handled no command on the connection yet
no_prev == <<>>

\* the commands parse_config has handled in a row, the last two kept, after
\* it has handled line with the configuration p and answered r
handled_in_a_row(h, line, p, r) ==
    (IF h = <<>> THEN <<>> ELSE <<h[Len(h)]>>)
        \o <<[line |-> line, before |-> p, reply |-> r]>>

\* ------------------------------------------------------------ environment
\* what a client may send: at most MaxCmds command lines
ClientScripts == {ClientLines(n) : n \in 0..MaxCmds}

\* the (et_activated, filter_command) settings a session may run under
FilterSettings == {<<TRUE, "cmd">>, <<FALSE, "cmd">>, <<TRUE, "null">>}

\* the origin's answer to a command
OriginAnswer(v, st, capas) ==
    CASE v = "garbage"           -> <<"err">>
      [] v = "capa"              -> <<"ok">> \o capas \o <<"dot">>
      [] v = "retr" /\ st = "ok" -> <<"ok", "body", "dot">>
      [] OTHER                   -> <<st>>

\* the statuses the origin may answer a command with
OriginStatus(v) == IF v \in vocabulary.refused THEN {"ok", "err"} ELSE {"ok"}

\* the origin as a record: the bytes it has sent that were not read yet, the
\* command line it is receiving, and how many lines it has received
OriginNow == [net |-> originNet, line |-> originLine, lines |-> originLines,
              first |-> originFirst]

\* the origin receives the bytes x and answers every command line as soon
\* as the line is complete
RECURSIVE OriginReact(_, _, _)
OriginReact(o, x, capas) ==
    IF x = <<>> THEN {o}
    ELSE IF Head(x) = "nl"
    THEN LET v == IF o.line \in ValidVerbs THEN o.line ELSE "garbage"
         IN  UNION {OriginReact([net   |-> o.net \o OriginAnswer(v, st, capas),
                                 line  |-> "none",
                                 lines |-> o.lines + 1,
                                 first |-> IF o.lines = 0 THEN v ELSE o.first],
                                Tail(x), capas) : st \in OriginStatus(v)}
    ELSE OriginReact([o EXCEPT !.line = IF o.line = "none" /\ Head(x) \in ValidVerbs
                                       THEN Head(x) ELSE "garbage"],
                     Tail(x), capas)

\* the proxy writes the bytes x to the origin socket
OriginGets(x) ==
    \E o \in OriginReact(OriginNow, x, originCapa) :
        /\ originNet' = o.net
        /\ originLine' = o.line
        /\ originLines' = o.lines
        /\ originFirst' = o.first

\* length of the longest common prefix of two byte sequences
RECURSIVE CommonPrefix(_, _)
CommonPrefix(a, b) ==
    IF a = <<>> \/ b = <<>> \/ Head(a) # Head(b) THEN 0
    ELSE 1 + CommonPrefix(Tail(a), Tail(b))

\* the bytes the client holds of the response being delivered, once it has
\* received x
ClientGets(x) ==
    IF x = <<>> THEN clientRecv
    ELSE IF clientDone # "no" THEN x ELSE clientRecv \o x

\* the write offset of a buffer that held bytes up to offset pos and now
\* holds data: a drained buffer is compacted
buffer_pos(data, pos) == IF data = <<>> THEN 0 ELSE pos

\* the byte counts recv can return for a buffer with write offset pos when
\* net is waiting in the socket
RecvCounts(net, pos) ==
    LET space == BUFFER_SIZE - pos
        most  == IF Len(net) < space THEN Len(net) ELSE space
    IN  {-1} \cup (1..most) \cup (IF space <= 0 THEN {0} ELSE {})

\* the byte counts recv can return on the origin socket: end of file once
\* the origin has closed and nothing is left to read
OriginRecvCounts(net, pos) ==
    IF originClosed /\ net = <<>> THEN {0} ELSE RecvCounts(net, pos)

\* the verbs of the sessions of Spec: the client sends USER, CAPA, RETR and
\* QUIT and the origin may refuse a RETR
SessionVocabulary ==
    [client |-> {"user", "capa", "retr", "quit"}, refused |-> {"retr"}]

\* a session whose client and origin speak voc
InitWith(voc) ==
    /\ vocabulary = voc
    /\ state = "ORIGIN_RESOLV"
    /\ client_interest = "WRITE"
    /\ origin_interest = "NOOP"
    /\ origin_fd = "none"
    /\ resolver = "idle"
    /\ origin_resolution = "null"
    /\ read_buffer = <<>>
    /\ read_buffer_pos = 0
    /\ write_buffer = <<>>
    /\ write_buffer_pos = 0
    /\ super_buffer = <<>>
    /\ request_queue = <<>>
    /\ queue_current = 1
    /\ pipelining = FALSE
    /\ concurrent_invalid_commands = 0
    /\ session_state = "AUTHORIZATION"
    /\ request_parser = request_parser_init
    /\ response_request = NoRequest
    /\ response_parser = response_parser_init
    /\ \E fs \in FilterSettings : et_activated = fs[1] /\ filter_command = fs[2]
    /\ clientNet \in ClientScripts
    /\ clientRecv = <<>>
    /\ clientDone = "no"
    /\ originNet = <<>>
    /\ originLine = "none"
    /\ originLines = 0
    /\ originFirst = "none"
    /\ toOrigin = <<>>
    /\ originExtra = <<>>
    /\ outstanding = 0
    /\ shortWrites = 0
    /\ capaLeft = 0
    /\ originCapa \in OriginCapas
    /\ nParsed = 0
    /\ nValid = 0
    /\ invalidRun = 0
    /\ respLog = <<>>
    /\ last = "init"
    /\ et = et_zero
    /\ extern_read_buffer = <<>>
    /\ ext_read_interest = "unreg"
    /\ ext_write_interest = "unreg"
    /\ extern_read_fd = "unset"
    /\ extern_write_fd = "unset"
    /\ childOut = <<>>
    /\ childExit = FALSE
    /\ concurrent_connections = 1
    /\ references = 1
    /\ registered = {"client"}
    /\ released = "live"
    /\ pool = <<>>
    /\ pool_size = 0
    /\ sessions = 1
    /\ retrieved_messages = 0
    /\ transferred_bytes = 0
    /\ retrBytes = 0
    /\ episode = episode_none
    /\ originClosed = FALSE
    /\ management_interest = "none"
    /\ mgmt_status = "ST_HELO"
    /\ mgmt_error = "PARSE_OK"
    /\ mgmt_argc = 0
    /\ mgmt_cmd = garbage
    /\ mgmt_user = "unset"
    /\ replacement_msg = "default"
    /\ filtered_media_types = {}
    /\ reply = no_reply
    /\ prev = no_prev

\* variable groups left alone by most handlers
resolvVars  == <<origin_fd, resolver, origin_resolution>>
configVars  == <<et_activated, filter_command, originCapa, vocabulary, shortWrites,
                 originClosed>>
sessionVars == <<pipelining, concurrent_invalid_commands, session_state>>
queueVars   == <<request_queue, queue_current>>
parsedVars  == <<nParsed, nValid, invalidRun, toOrigin>>
bufferVars  == <<read_buffer, read_buffer_pos, write_buffer, write_buffer_pos,
                 super_buffer>>
responseVars == <<response_request, response_parser>>

Init == InitWith(SessionVocabulary)

\* pop3_done: the connection count after the teardown of a session whose
\* origin_fd is fd (connecting stores its descriptor in origin_fd first)
pop3_done(fd, cc) == IF fd # "none" THEN cc - 1 ELSE cc

\* pop3_destroy: the reference count after one holder lets go of the record;
\* the last one hands the record to the pool and leaves the count alone
pop3_destroy(refs) == IF refs = 1 THEN refs ELSE refs - 1

\* pop3_done: the reference count after the descriptors are unregistered,
\* each unregistration closing its descriptor through pop3_close
pop3_done_references(fd, refs) ==
    IF fd # "none" THEN pop3_destroy(pop3_destroy(refs)) ELSE pop3_destroy(refs)

\* pop3_done: the sockets the selector still holds for the session after
\* the teardown
pop3_done_registered(fd, reg) ==
    reg \ ({"client"} \cup IF fd # "none" THEN {"origin"} ELSE {})

\* pop3_destroy called from pop3_close while the selector still holds the
\* sockets reg for the session: whether the record is released, and whether
\* it is while a socket is still registered with it
pop3_close(refs, reg) ==
    IF refs # 1 THEN "live"
    ELSE IF reg = {} THEN "pooled" ELSE "pooled_registered"

\* pop3_done: what has become of the record once the client's socket and
\* then the origin's have been unregistered
pop3_done_released(fd, refs, reg) ==
    LET first == pop3_close(refs, reg \ {"client"})
    IN  IF first # "live" \/ fd = "none" THEN first
        ELSE pop3_close(pop3_destroy(refs), reg \ {"client", "origin"})

\* a variant of origin_connect that registers the socket and takes no
\* reference for it
origin_connect_no_reference(refs) == refs

\* origin_connect: the reference taken for the socket it registers
origin_connect_references(refs) == refs + 1

\* the handler returned ret; pop3_done unregisters both descriptors when
\* ret is terminal, and origin_connect takes a reference for the descriptor
\* it registers
Finish(ret, ci, oi) ==
    /\ state' = ret
    /\ concurrent_connections' =
          IF Terminal(ret)
          THEN pop3_done(IF state = "CONNECTING" THEN "sock" ELSE origin_fd,
                         concurrent_connections)
          ELSE concurrent_connections
    /\ references' =
          IF Terminal(ret)
          THEN pop3_done_references(IF state = "CONNECTING" THEN "sock"
                                    ELSE origin_fd, references)
          ELSE IF state = "ORIGIN_RESOLV" /\ ret = "CONNECTING"
          THEN origin_connect_references(references)
          ELSE references
    /\ registered' =
          IF Terminal(ret)
          THEN pop3_done_registered(IF state = "CONNECTING" THEN "sock"
                                    ELSE origin_fd, registered)
          ELSE IF state = "ORIGIN_RESOLV" /\ ret = "CONNECTING"
          THEN registered \cup {"origin"}
          ELSE registered
    /\ released' =
          IF Terminal(ret)
          THEN pop3_done_released(IF state = "CONNECTING" THEN "sock"
                                  ELSE origin_fd, references, registered)
          ELSE released
    /\ client_interest' = IF Terminal(ret) THEN "NOOP" ELSE ci
    /\ origin_interest' = IF Terminal(ret) THEN "NOOP" ELSE oi

\* ------------------------------------------------------------ ORIGIN_RESOLV
\* what pthread_create returns: 0 when the thread is started, an error
\* number (EAGAIN) when it is not
pthread_create == {0, 11}

\* the test origin_resolv makes of what pthread_create returned
pthread_create_failed(rc) == rc = -1

\* k is whether malloc returned the copy of the key
origin_resolv ==
    /\ state = "ORIGIN_RESOLV"
    /\ client_interest = "WRITE"
    /\ \E k \in BOOLEAN, rc \in pthread_create :
          IF ~k
          THEN /\ resolver' = resolver
               /\ Finish("ERROR", client_interest, origin_interest)
          ELSE /\ resolver' = IF rc = 0 THEN "running" ELSE resolver
               /\ IF pthread_create_failed(rc)
                  THEN Finish("ERROR", client_interest, origin_interest)
                  ELSE Finish("ORIGIN_RESOLV", "NOOP", origin_interest)
    /\ last' = "origin_resolv"
    /\ UNCHANGED <<etVars, originVars, clientVars, configVars, metricVars, sessionVars,
                   queueVars, parsedVars, bufferVars, responseVars,
                   origin_fd, origin_resolution, request_parser, clientNet,
                   respLog>>
    /\ UNCHANGED <<managementVars, poolVars>>

origin_resolv_blocking ==
    /\ resolver = "running"
    /\ origin_resolution' \in {"null", "addr"}
    /\ resolver' = "notified"
    /\ last' = "origin_resolv_blocking"
    /\ UNCHANGED <<etVars, originVars, clientVars, configVars, metricVars, sessionVars,
                   queueVars, parsedVars, bufferVars, responseVars,
                   state, client_interest, origin_interest, origin_fd,
                   request_parser, clientNet, respLog,
                   concurrent_connections, references, registered,
                   released>>
    /\ UNCHANGED <<managementVars, poolVars>>

\* origin_connect: "failed" covers socket(), the non-blocking switch, an
\* immediate connect error and the selector calls; otherwise the connect
\* is in progress
\* origin_connect as it would be if a connect in progress were taken for an
\* established connection
origin_connect_established(connected) ==
    IF connected
    THEN Finish("HELLO", "NOOP", "READ")
    ELSE Finish("ERROR", "WRITE", origin_interest)

origin_connect(connected) ==
    IF connected
    THEN Finish("CONNECTING", "NOOP", "WRITE")
    ELSE Finish("ERROR", "WRITE", origin_interest)

origin_resolv_done ==
    /\ state = "ORIGIN_RESOLV"
    /\ resolver = "notified"
    /\ resolver' = "idle"
    /\ origin_resolution' = "null"
    /\ IF origin_resolution = "null"
       THEN /\ clientRecv' = ClientGets(<<"err_invalid_domain">>)
            /\ clientDone' = "error"
            /\ Finish("ERROR", client_interest, origin_interest)
       ELSE /\ UNCHANGED clientVars
            /\ \E connected \in BOOLEAN : origin_connect(connected)
    /\ last' = "origin_resolv_done"
    /\ UNCHANGED <<etVars, originVars, configVars, metricVars, sessionVars,
                   queueVars, parsedVars, bufferVars, responseVars,
                   origin_fd, request_parser, clientNet, respLog>>
    /\ UNCHANGED <<managementVars, poolVars>>

\* --------------------------------------------------------------- CONNECTING
connecting ==
    /\ state = "CONNECTING"
    /\ origin_interest = "WRITE"
    /\ origin_fd' = "sock"
    /\ \E so_error \in BOOLEAN :
          IF so_error
          THEN /\ clientRecv' = ClientGets(<<"err_connection_refused">>)
               /\ clientDone' = "error"
               /\ Finish("ERROR", client_interest, "NOOP")
               /\ UNCHANGED <<sessionVars, originNet>>
          ELSE /\ UNCHANGED clientVars
               /\ pipelining' = FALSE
               /\ concurrent_invalid_commands' = 0
               /\ session_state' = "AUTHORIZATION"
               /\ originNet' = <<"greet">>
               /\ Finish("HELLO", "NOOP", "READ")
    /\ last' = "connecting"
    /\ UNCHANGED <<etVars, configVars, metricVars, queueVars, parsedVars, bufferVars,
                   responseVars, resolver, origin_resolution, request_parser,
                   clientNet, respLog, originLine, originLines, originFirst,
                   originExtra, capaLeft, outstanding>>
    /\ UNCHANGED <<managementVars, poolVars>>

\* -------------------------------------------------------------------- HELLO
\* hello_read advances the write pointer by this many bytes after having
\* received n bytes of the origin's greeting
hello_read_adv(n) == 0

hello_read ==
    /\ state = "HELLO"
    /\ origin_interest = "READ"
    /\ \E n \in RecvCounts(originNet, write_buffer_pos + 1) :
          LET banner == Append(write_buffer, "banner")
          IN  IF n > 0
              THEN /\ originNet' = Drop(originNet, n)
                   /\ write_buffer' = banner \o Take(Take(originNet, n), hello_read_adv(n))
                   /\ write_buffer_pos' = write_buffer_pos + 1 + hello_read_adv(n)
                   /\ Finish("HELLO", "WRITE", "NOOP")
              ELSE /\ originNet' = originNet
                   /\ write_buffer' = banner
                   /\ write_buffer_pos' = write_buffer_pos + 1
                   /\ Finish("ERROR", client_interest, origin_interest)
    /\ last' = "hello_read"
    /\ UNCHANGED <<etVars, clientVars, configVars, metricVars, sessionVars, queueVars,
                   parsedVars, responseVars, resolvVars, read_buffer, read_buffer_pos,
                   super_buffer, request_parser, clientNet, respLog,
                   originLine, originLines, originFirst, originExtra, capaLeft,
                   outstanding>>
    /\ UNCHANGED <<managementVars, poolVars>>

hello_write ==
    /\ state = "HELLO"
    /\ client_interest = "WRITE"
    /\ \E n \in {-1} \cup (1..Len(write_buffer)) :
          IF n = -1
          THEN /\ Finish("ERROR", client_interest, origin_interest)
               /\ UNCHANGED <<write_buffer, write_buffer_pos, clientVars,
                              originNet, originLine, originLines, originFirst,
                              capaLeft, responseVars>>
          ELSE /\ clientRecv' = ClientGets(Take(write_buffer, n))
               /\ write_buffer' = Drop(write_buffer, n)
               /\ write_buffer_pos' = buffer_pos(Drop(write_buffer, n), write_buffer_pos)
               /\ IF ~buffer_can_read(Drop(write_buffer, n))
                  THEN \* CAPA is sent and capa_init runs on arrival
                       /\ clientDone' = "hello"
                       /\ OriginGets(Wire("capa"))
                       /\ capaLeft' = Len(OriginAnswer("capa", "ok", originCapa))
                       /\ response_request' = new_request("capa", 0)
                       /\ response_parser' = response_parser_init
                       /\ Finish("CAPA", "NOOP", "READ")
                  ELSE /\ clientDone' = "no"
                       /\ UNCHANGED <<originNet, originLine, originLines,
                                      originFirst, capaLeft, responseVars>>
                       /\ Finish("HELLO", client_interest, origin_interest)
    /\ last' = "hello_write"
    /\ UNCHANGED <<etVars, configVars, metricVars, sessionVars, queueVars, parsedVars,
                   resolvVars, read_buffer, read_buffer_pos, super_buffer, request_parser,
                   clientNet, respLog, originExtra, outstanding>>
    /\ UNCHANGED <<managementVars, poolVars>>

\* --------------------------------------------------------------------- CAPA
set_pipelining(capa_response) == has_needle(to_upper(capa_response))

\* a variant of the loop that reads nothing
buffer_drain_none(wb) == wb

\* the loop of set_pipelining that reads d->wb until it is empty
buffer_drain(wb) == <<>>

\* a variant that takes the response for complete once its first line is in
capa_is_done_first_line(st) == st # "response_status_indicator"

\* the test capa_read makes of the state response_consume returns
capa_is_done(st) == response_is_done(st)

\* a variant that calls response_consume once
capa_consume_once(rb, wb, p, cmd) == response_consume(rb, wb, p, cmd)

\* the two calls of response_consume capa_read makes on what it has read:
\* the first stops at the end of the status line, the second goes on once
\* first_line_done has been cleared
capa_consume(rb, wb, p, cmd) ==
    LET c1 == response_consume(rb, wb, p, cmd)
    IN  response_consume(c1.rb, c1.wb,
                         [c1.p EXCEPT !.first_line_done = FALSE], cmd)

capa_read ==
    /\ state = "CAPA"
    /\ origin_interest = "READ"
    /\ \E n \in RecvCounts(originNet, write_buffer_pos) :
          IF n <= 0
          THEN /\ Finish("ERROR", client_interest, origin_interest)
               /\ UNCHANGED <<write_buffer, write_buffer_pos, super_buffer,
                              originNet, pipelining, response_parser,
                              request_parser, capaLeft>>
          ELSE LET b  == write_buffer \o Take(originNet, n)
                   c2 == capa_consume(b, super_buffer, response_parser,
                                      response_request.cmd)
               IN  /\ originNet' = Drop(originNet, n)
                   /\ capaLeft' = capaLeft - n
                   /\ write_buffer' = c2.rb
                   /\ write_buffer_pos' = buffer_pos(c2.rb, write_buffer_pos + n)
                   /\ IF capa_is_done(c2.p.state)
                      THEN /\ pipelining' = set_pipelining(c2.p.capa_response)
                           /\ response_parser' =
                                 [c2.p EXCEPT !.capa_response = to_upper(@)]
                           /\ super_buffer' = buffer_drain(c2.wb)
                           /\ request_parser' = request_parser_init
                           /\ Finish("REQUEST", "READ", "NOOP")
                      ELSE /\ pipelining' = pipelining
                           /\ response_parser' = c2.p
                           /\ super_buffer' = c2.wb
                           /\ request_parser' = request_parser
                           /\ Finish("CAPA", client_interest, origin_interest)
    /\ last' = "capa_read"
    /\ UNCHANGED <<etVars, clientVars, configVars, metricVars, queueVars, parsedVars,
                   resolvVars, read_buffer, read_buffer_pos, concurrent_invalid_commands,
                   session_state, response_request, clientNet, respLog,
                   originLine, originLines, originFirst, originExtra,
                   outstanding>>
    /\ UNCHANGED <<managementVars, poolVars>>

\* ------------------------------------------------- EXTERNAL_TRANSFORMATION
\* parse_mail: whether the buffer holds the end of the mail, and the number
\* of bytes up to and including it
parse_mail(b) ==
    IF \E i \in 1..Len(b) : b[i] = "dot"
    THEN [fin |-> TRUE,
          send_bytes |-> CHOOSE i \in 1..Len(b) :
                            b[i] = "dot" /\ \A j \in 1..(i - 1) : b[j] # "dot"]
    ELSE [fin |-> FALSE, send_bytes |-> 0]

\* a variant that does not wait for the origin-to-filter direction
finished_et_write_only(e) == e.finish_wr \/ e.error_wr

finished_et(e) ==
    \/ e.finish_rd /\ e.finish_wr
    \/ e.finish_rd /\ e.error_wr

\* on_arrival of EXTERNAL_TRANSFORMATION; rb is write_buffer as the
\* departing handler leaves it, opened the outcome of
\* open_external_transformation
external_transformation_init(rb, opened) ==
    LET pm == parse_mail(rb)
    IN  /\ et' = [et_zero EXCEPT
                     !.status = IF opened THEN "et_status_ok" ELSE "et_status_err",
                     !.finish_rd = pm.fin,
                     !.send_bytes_read = pm.send_bytes]
        /\ extern_read_buffer' =
               Append(extern_read_buffer,
                      IF opened THEN "ok_sending_mail" ELSE "err_could_not_open")
        /\ ext_read_interest' = IF opened THEN "READ" ELSE ext_read_interest
        /\ ext_write_interest' = IF opened THEN "WRITE" ELSE ext_write_interest
        /\ extern_read_fd' = IF opened THEN "open" ELSE extern_read_fd
        /\ extern_write_fd' = IF opened THEN "open" ELSE extern_write_fd
        /\ childOut' = IF opened THEN <<>> ELSE childOut
        /\ childExit' = IF opened THEN FALSE ELSE childExit
        /\ episode' = [spawned |-> opened, wrote |-> FALSE, toChild |-> <<>>]

\* ------------------------------------------------------------------ REQUEST
request_error_msg(st) ==
    CASE st = "request_error_cmd_too_long"   -> "err_command_too_long"
      [] st = "request_error_param_too_long" -> "err_parameter_too_long"
      [] OTHER                               -> "err_unknown_command"

\* a variant that forgets to reset the counter
cic_kept(cic) == cic

\* the value the counter takes after a valid command
cic_after_valid(cic) == 0

\* a variant that rejects unknown verbs only (== instead of >=)
request_is_unknown(st) == st = "request_error"

\* the test request_process makes of the parser's state
request_is_invalid(st) == st \in RequestErrors

\* processes the request the parser p has completed; b is read_buffer after
\* request_consume
request_process(b, p) ==
    /\ nParsed' = nParsed + 1
    /\ nValid' = nValid + (IF p.cmd \in ValidVerbs THEN 1 ELSE 0)
    /\ invalidRun' = IF p.cmd \in ValidVerbs THEN 0 ELSE invalidRun + 1
    /\ toOrigin' = IF p.cmd \in ValidVerbs THEN toOrigin \o Wire(p.cmd) ELSE toOrigin
    /\ IF request_is_invalid(p.state)
       THEN LET cic == concurrent_invalid_commands + 1
            IN  /\ concurrent_invalid_commands' = cic
                /\ respLog' = Append(respLog, nParsed + 1)
                /\ clientDone' = "reject"
                /\ request_queue' = request_queue
                /\ IF cic >= MAX_CONCURRENT_INVALID_COMMANDS
                   THEN /\ clientRecv' = ClientGets(<<request_error_msg(p.state),
                                                      "err_too_many">>)
                        /\ request_parser' = p
                        /\ Finish("DONE", client_interest, origin_interest)
                        /\ last' = "request_process_abuse"
                   ELSE /\ clientRecv' = ClientGets(<<request_error_msg(p.state)>>)
                        /\ request_parser' = request_parser_init
                        /\ Finish("REQUEST", client_interest, origin_interest)
                        /\ last' = "request_process_invalid"
       ELSE /\ concurrent_invalid_commands' = cic_after_valid(concurrent_invalid_commands)
            /\ request_queue' =
                  queue_add(request_queue, new_request(p.cmd, nParsed + 1))
            /\ request_parser' = request_parser_init
            /\ IF ~buffer_can_read(b)
               THEN Finish("REQUEST", "NOOP", "WRITE")
               ELSE Finish("REQUEST", client_interest, origin_interest)
            /\ last' = "request_process_valid"
            /\ UNCHANGED <<respLog, clientVars>>

request_read ==
    /\ state = "REQUEST"
    /\ client_interest = "READ"
    /\ \E n \in RecvCounts(clientNet, read_buffer_pos) \cup {0} :
          /\ n = 0 => (clientNet = <<>> \/ read_buffer_pos >= BUFFER_SIZE)
          /\ IF n > 0 \/ buffer_can_read(read_buffer)
             THEN \E v \in (IF nValid < MaxValid
                           THEN vocabulary.client \cup InvalidVerbs
                           ELSE InvalidVerbs) :
                  LET got == IF n > 0 THEN n ELSE 0
                      c   == request_consume(read_buffer \o Take(clientNet, got),
                                             request_parser, v)
                  IN  /\ clientNet' = Drop(clientNet, got)
                      /\ read_buffer' = c.b
                      /\ read_buffer_pos' = buffer_pos(c.b, read_buffer_pos + got)
                      /\ IF request_is_done(c.p.state)
                         THEN request_process(c.b, c.p)
                         ELSE /\ request_parser' = c.p
                              /\ Finish("REQUEST", client_interest, origin_interest)
                              /\ last' = "request_read"
                              /\ UNCHANGED <<parsedVars, respLog, clientVars,
                                             request_queue,
                                             concurrent_invalid_commands>>
             ELSE /\ Finish("ERROR", client_interest, origin_interest)
                  /\ last' = "request_read"
                  /\ UNCHANGED <<clientNet, read_buffer, read_buffer_pos,
                                 request_parser, parsedVars, respLog, clientVars,
                                 request_queue, concurrent_invalid_commands>>
    /\ UNCHANGED <<etVars, configVars, metricVars, resolvVars, responseVars, write_buffer,
                   write_buffer_pos, super_buffer, queue_current, pipelining,
                   session_state, originNet, originLine, originLines,
                   originFirst, originExtra, capaLeft, outstanding>>
    /\ UNCHANGED <<managementVars, poolVars>>

RECURSIVE marshall_all(_)
marshall_all(rs) ==
    IF rs = <<>> THEN <<>> ELSE request_marshall(Head(rs)) \o marshall_all(Tail(rs))

\* the requests request_write copies into the buffer before it sends
request_write_requests(q, cur, pipe) ==
    IF pipe THEN queue_rest(q, cur) ELSE <<queue_peek(q)>>

\* response_init: on_arrival of RESPONSE
response_init(q, cur) ==
    /\ response_request' = Head(q)
    /\ request_queue' = Tail(q)
    /\ queue_current' = IF cur > 1 THEN cur - 1 ELSE 1
    /\ response_parser' = response_parser_init

\* number of complete lines in the bytes x
RECURSIVE CountLines(_)
CountLines(x) ==
    IF x = <<>> THEN 0
    ELSE (IF Head(x) = "nl" THEN 1 ELSE 0) + CountLines(Tail(x))

\* the proxy writes the bytes x of the request buffer to the origin
OriginGetsRequests(x) ==
    LET k == CommonPrefix(x, toOrigin)
    IN  /\ OriginGets(x)
        /\ toOrigin' = Drop(toOrigin, k)
        /\ originExtra' = originExtra \o Drop(x, k)
        /\ outstanding' = outstanding + CountLines(x)
        /\ capaLeft' = capaLeft

request_write ==
    /\ state = "REQUEST"
    /\ origin_interest = "WRITE"
    /\ LET rs     == request_write_requests(request_queue, queue_current, pipelining)
           fits   == write_buffer_pos + Len(marshall_all(rs)) <= BUFFER_SIZE
           b      == IF fits THEN write_buffer \o marshall_all(rs) ELSE write_buffer
           pos    == IF fits THEN write_buffer_pos + Len(marshall_all(rs))
                     ELSE write_buffer_pos
           cur    == IF pipelining THEN Len(request_queue) + 1 ELSE queue_current
       IN  IF (~pipelining /\ queue_is_empty(request_queue)) \/ (pipelining /\ ~fits)
           THEN /\ Finish("ERROR", client_interest, origin_interest)
                /\ UNCHANGED <<write_buffer, write_buffer_pos, originVars, shortWrites,
                               responseVars, queueVars>>
           ELSE \E n \in (IF originClosed THEN {-1}
                        ELSE {-1} \cup (IF b = <<>> THEN {0} ELSE 1..Len(b))) :
                   IF n = -1
                   THEN /\ write_buffer' = b
                        /\ write_buffer_pos' = pos
                        /\ queue_current' = cur
                        /\ Finish("ERROR", client_interest, origin_interest)
                        /\ UNCHANGED <<originVars, shortWrites, responseVars, request_queue>>
                   ELSE /\ n < Len(b) => shortWrites < MaxShortWrites
                        /\ shortWrites' = shortWrites + (IF n < Len(b) THEN 1 ELSE 0)
                        /\ OriginGetsRequests(Take(b, n))
                        /\ write_buffer' = Drop(b, n)
                        /\ write_buffer_pos' = buffer_pos(Drop(b, n), pos)
                        /\ IF ~buffer_can_read(Drop(b, n))
                           THEN /\ response_init(request_queue, cur)
                                /\ Finish("RESPONSE", client_interest, "READ")
                           ELSE /\ queue_current' = cur
                                /\ Finish(IF fits THEN "REQUEST" ELSE "ERROR",
                                          client_interest, origin_interest)
                                /\ UNCHANGED <<responseVars, request_queue>>
    /\ last' = "request_write"
    /\ UNCHANGED <<etVars, et_activated, filter_command, originCapa, vocabulary,
                   originClosed, metricVars, resolvVars, sessionVars, clientVars,
                   read_buffer, read_buffer_pos, super_buffer, request_parser,
                   clientNet, nParsed, nValid, invalidRun, respLog>>
    /\ UNCHANGED <<managementVars, poolVars>>

\* ----------------------------------------------------------------- RESPONSE
\* the capability list response_process_capa stores and copies into the
\* client-bound buffer when the needle is missing
new_capa(capabilities) ==
    Take(capabilities, Len(capabilities) - 1) \o <<"PIPE", "dot">>

\* the content of the client-bound buffer after response_process_capa
response_process_capa(p, wb) ==
    IF has_needle(to_upper(p.capa_response))
    THEN [p |-> [p EXCEPT !.capa_response = to_upper(@)], wb |-> wb]
    ELSE [p |-> [p EXCEPT !.capa_response = new_capa(to_upper(@))],
          wb |-> new_capa(to_upper(p.capa_response))]

\* a variant that does not look at et_activated
et_condition_always_on(st, status, cmd, activated, command) ==
    /\ st = "response_mail"
    /\ status = "ok"
    /\ cmd = "retr"
    /\ command # "null"

\* the test response_read makes once the first line has been parsed
et_condition(st, status, cmd, activated, command) ==
    /\ st = "response_mail"
    /\ status = "ok"
    /\ cmd = "retr"
    /\ activated
    /\ command # "null"

response_read ==
    /\ state = "RESPONSE"
    /\ origin_interest = "READ"
    /\ \E n \in OriginRecvCounts(originNet, write_buffer_pos) :
          IF n > 0 \/ buffer_can_read(write_buffer)
          THEN LET got == IF n > 0 THEN n ELSE 0
                   cmd == response_request.cmd
                   c1  == response_consume(write_buffer \o Take(originNet, got),
                                           super_buffer, response_parser, cmd)
                   p1  == [c1.p EXCEPT !.first_line_done = FALSE]
                   toEt == /\ c1.p.first_line_done
                           /\ et_condition(c1.p.state, c1.p.status, cmd,
                                           et_activated, filter_command)
                   c2  == IF c1.p.first_line_done
                          THEN response_consume(c1.rb, c1.wb, p1, cmd)
                          ELSE c1
                   pc  == IF c2.p.state = "response_done" /\ cmd = "capa"
                          THEN response_process_capa(c2.p, c2.wb)
                          ELSE [p |-> c2.p, wb |-> c2.wb]
               IN  /\ originNet' = Drop(originNet, got)
                   /\ IF toEt
                      THEN /\ write_buffer' = c1.rb
                           /\ write_buffer_pos' = buffer_pos(c1.rb, write_buffer_pos + got)
                           /\ super_buffer' = <<>>
                           /\ response_parser' = p1
                           /\ \E opened \in BOOLEAN :
                                 /\ external_transformation_init(c1.rb, opened)
                                 /\ Finish("EXTERNAL_TRANSFORMATION",
                                           IF opened THEN client_interest ELSE "WRITE",
                                           "NOOP")
                           /\ last' = "response_read_et"
                      ELSE /\ write_buffer' = c2.rb
                           /\ write_buffer_pos' = buffer_pos(c2.rb, write_buffer_pos + got)
                           /\ super_buffer' = pc.wb
                           /\ response_parser' = pc.p
                           /\ IF c2.p.state = "response_error"
                              THEN Finish("ERROR", client_interest, origin_interest)
                              ELSE Finish("RESPONSE", "WRITE", "NOOP")
                           /\ last' = IF c1.p.first_line_done
                                      THEN "response_read_first_line"
                                      ELSE "response_read"
                           /\ UNCHANGED etVars
          ELSE /\ IF n = -1
                  THEN Finish("ERROR", client_interest, origin_interest)
                  ELSE Finish("RESPONSE", client_interest, origin_interest)
               /\ last' = IF n = 0 /\ originClosed THEN "response_read_eof"
                          ELSE "response_read"
               /\ UNCHANGED <<etVars, originNet, write_buffer, write_buffer_pos,
                              super_buffer, response_parser>>
    /\ UNCHANGED <<configVars, metricVars, resolvVars, sessionVars, queueVars, parsedVars,
                   clientVars, read_buffer, read_buffer_pos, request_parser,
                   response_request, clientNet, respLog, originLine,
                   originLines, originFirst, originExtra, capaLeft, outstanding>>
    /\ UNCHANGED <<managementVars, poolVars>>

\* session.state after every PASS response has been taken for an accepted one
response_process_any_pass(cmd, status, phase) ==
    IF cmd = "quit" THEN "UPDATE"
    ELSE IF cmd = "pass" THEN "TRANSACTION" ELSE phase

\* session.state after response_process has seen the flushed response to cmd,
\* whose status the response parser has recorded
response_process_phase(cmd, status, phase) ==
    IF cmd = "quit" THEN "UPDATE"
    ELSE IF cmd = "pass" /\ status = "ok" THEN "TRANSACTION" ELSE phase

\* a variant that ends the session on QUIT only when nothing is queued
response_process_ret_queued(cmd, empty, pipe) ==
    IF cmd = "quit" /\ empty THEN "DONE"
    ELSE IF ~empty /\ pipe THEN "RESPONSE" ELSE "REQUEST"

\* the state response_process returns when its selector calls succeed: cmd is
\* the verb of the request answered, empty tells whether the request queue
\* is empty, pipe is session.pipelining
response_process_ret(cmd, empty, pipe) ==
    IF cmd = "quit" THEN "DONE"
    ELSE IF ~empty /\ pipe THEN "RESPONSE" ELSE "REQUEST"

\* response_process: the response to response_request has been flushed
response_process ==
    IF response_request.cmd = "quit"
    THEN /\ session_state' = response_process_phase(response_request.cmd,
                                   response_parser.status, session_state)
         /\ Finish(response_process_ret(response_request.cmd,
                                        queue_is_empty(request_queue), pipelining),
                   "NOOP", origin_interest)
         /\ UNCHANGED <<responseVars, queueVars, request_parser>>
    ELSE /\ session_state' = response_process_phase(response_request.cmd,
                                   response_parser.status, session_state)
         /\ IF ~queue_is_empty(request_queue)
            THEN IF pipelining
                 THEN /\ response_init(request_queue, queue_current)
                      /\ request_parser' = request_parser
                      /\ Finish("RESPONSE", "NOOP", "READ")
                 ELSE /\ request_parser' = request_parser_init
                      /\ Finish("REQUEST", "NOOP", "WRITE")
                      /\ UNCHANGED <<responseVars, queueVars>>
            ELSE /\ request_parser' = request_parser_init
                 /\ Finish("REQUEST", "READ", "NOOP")
                 /\ UNCHANGED <<responseVars, queueVars>>

\* transferred_bytes after response_write has sent n bytes of the response to
\* cmd: drained tells whether the buffer is empty after the send, done
\* whether the parser has reached response_done
response_write_transferred(tb, n, cmd, drained, done) ==
    IF drained /\ ~done /\ cmd = "retr" THEN tb + n ELSE tb

\* retrieved_messages after response_write has flushed the whole response to
\* cmd
response_write_retrieved(rm, cmd) == IF cmd = "retr" THEN rm + 1 ELSE rm

\* a variant that leaves the client's interest as it is
response_write_interests_client_kept(ci, oi) == <<ci, "READ">>

\* the client's and the origin's interests after response_write has sent all
\* it had of a response the origin has not finished
response_write_interests(ci, oi) == <<"NOOP", "READ">>

response_write ==
    /\ state = "RESPONSE"
    /\ client_interest = "WRITE"
    /\ \E n \in {-1} \cup (IF super_buffer = <<>> THEN {0} ELSE 1..Len(super_buffer)) :
          IF n = -1
          THEN /\ Finish("ERROR", client_interest, origin_interest)
               /\ last' = "response_write"
               /\ UNCHANGED <<super_buffer, clientVars, respLog, session_state,
                              responseVars, queueVars, request_parser,
                              outstanding, metricVars>>
          ELSE /\ clientRecv' = ClientGets(Take(super_buffer, n))
               /\ super_buffer' = Drop(super_buffer, n)
               /\ retrBytes' = IF response_request.cmd = "retr"
                               THEN retrBytes + n ELSE retrBytes
               /\ transferred_bytes' =
                     response_write_transferred(
                         transferred_bytes, n, response_request.cmd,
                         ~buffer_can_read(Drop(super_buffer, n)),
                         response_parser.state = "response_done")
               /\ IF buffer_can_read(Drop(super_buffer, n))
                     \/ response_parser.state # "response_done"
                  THEN /\ IF buffer_can_read(Drop(super_buffer, n))
                          THEN Finish("RESPONSE", client_interest, origin_interest)
                          ELSE Finish("RESPONSE",
                                      response_write_interests(client_interest,
                                                               origin_interest)[1],
                                      response_write_interests(client_interest,
                                                               origin_interest)[2])
                       /\ clientDone' = IF n = 0 THEN clientDone ELSE "no"
                       /\ last' = "response_write"
                       /\ UNCHANGED <<respLog, session_state, responseVars,
                                      queueVars, request_parser, outstanding,
                                      retrieved_messages>>
                  ELSE /\ respLog' = Append(respLog, response_request.seq)
                       /\ retrieved_messages' =
                             response_write_retrieved(retrieved_messages,
                                                      response_request.cmd)
                       /\ clientDone' = response_request.cmd
                       /\ outstanding' = outstanding - 1
                       /\ last' = "response_process"
                       /\ response_process
    /\ UNCHANGED <<etVars, configVars, resolvVars, parsedVars, read_buffer,
                   read_buffer_pos, write_buffer, write_buffer_pos, pipelining,
                   concurrent_invalid_commands, clientNet, originNet,
                   originLine, originLines, originFirst, originExtra, capaLeft>>
    /\ UNCHANGED <<managementVars, poolVars>>

\* ------------------------------------------------- EXTERNAL_TRANSFORMATION
\* close on the descriptor a field names: "unset" is a field no pipe end was
\* stored in, "open" a pipe end the session holds, "closed" one it has closed,
\* "misclosed" a number closed while the session did not hold it
close(fd) == IF fd = "open" THEN "closed" ELSE "misclosed"

\* ext_close, the close handler of the filter's pipe ends
ext_close(fd) == close(fd)

\* selector_unregister_fd on a pipe end: the selector runs the close handler
\* of a descriptor it holds and fails on one it does not hold
selector_unregister_fd(interest, fd) ==
    IF interest = "unreg" THEN fd ELSE ext_close(fd)

\* external_transformation_close, for one of the two pipe ends
external_transformation_close(interest, fd) ==
    close(selector_unregister_fd(interest, fd))

\* selector_set_interest on a descriptor: one the selector does not hold is
\* left as it is
set_interest(cur, want) == IF cur = "unreg" THEN cur ELSE want

\* the filter has finished: leave for RESPONSE when requests are queued, for
\* REQUEST otherwise; external_transformation_close runs on departure and
\* response_init or request_init on arrival
et_leave ==
    /\ respLog' = Append(respLog, response_request.seq)
    /\ outstanding' = outstanding - 1
    /\ clientDone' = "retr"
    /\ ext_read_interest' = "unreg"
    /\ ext_write_interest' = "unreg"
    /\ extern_read_fd' = external_transformation_close(ext_read_interest, extern_read_fd)
    /\ extern_write_fd' = external_transformation_close(ext_write_interest, extern_write_fd)
    /\ IF ~queue_is_empty(request_queue)
       THEN /\ response_init(request_queue, queue_current)
            /\ request_parser' = request_parser
            /\ Finish("RESPONSE", "NOOP", "READ")
       ELSE /\ request_parser' = request_parser_init
            /\ UNCHANGED <<responseVars, queueVars>>
            /\ Finish("REQUEST", "READ", "NOOP")

\* the handler stays in EXTERNAL_TRANSFORMATION (or fails) with the interests
\* given
et_stay(ret, ci, oi, er, ew) ==
    /\ Finish(ret, ci, oi)
    /\ ext_read_interest' = IF Terminal(ret) THEN "unreg" ELSE er
    /\ ext_write_interest' = IF Terminal(ret) THEN "unreg" ELSE ew
    /\ extern_read_fd' =
          IF Terminal(ret)
          THEN external_transformation_close(ext_read_interest, extern_read_fd)
          ELSE extern_read_fd
    /\ extern_write_fd' =
          IF Terminal(ret)
          THEN external_transformation_close(ext_write_interest, extern_write_fd)
          ELSE extern_write_fd
    /\ UNCHANGED <<respLog, outstanding, responseVars, queueVars,
                   request_parser>>

external_transformation_read ==
    /\ state = "EXTERNAL_TRANSFORMATION"
    /\ origin_interest = "READ"
    /\ \E n \in OriginRecvCounts(originNet, write_buffer_pos) :
          IF n > 0
          THEN LET b   == write_buffer \o Take(originNet, n)
                   pm  == parse_mail(b)
                   b2  == IF pm.fin
                          THEN (IF et.error_rd THEN Drop(b, pm.send_bytes) ELSE b)
                          ELSE (IF et.error_rd THEN Drop(b, n) ELSE b)
                   e2  == [et EXCEPT !.send_bytes_read = pm.send_bytes,
                                     !.finish_rd = pm.fin \/ @]
               IN  /\ originNet' = Drop(originNet, n)
                   /\ write_buffer' = b2
                   /\ write_buffer_pos' = buffer_pos(b2, write_buffer_pos + n)
                   /\ et' = e2
                   /\ IF pm.fin /\ finished_et(e2)
                      THEN et_leave
                      ELSE /\ UNCHANGED clientDone
                           /\ IF pm.fin \/ ~et.error_rd
                              THEN et_stay("EXTERNAL_TRANSFORMATION", client_interest,
                                           "NOOP", ext_read_interest,
                                           set_interest(ext_write_interest, "WRITE"))
                              ELSE et_stay("EXTERNAL_TRANSFORMATION", client_interest,
                                           origin_interest, ext_read_interest,
                                           ext_write_interest)
          ELSE /\ UNCHANGED <<originNet, write_buffer, write_buffer_pos, et,
                              clientDone>>
               /\ et_stay(IF n = -1 THEN "ERROR" ELSE "EXTERNAL_TRANSFORMATION",
                          client_interest, origin_interest, ext_read_interest,
                          ext_write_interest)
    /\ last' = IF originClosed /\ originNet = <<>>
               THEN "external_transformation_read_eof"
               ELSE "external_transformation_read"
    /\ UNCHANGED <<configVars, metricVars, resolvVars, sessionVars, parsedVars, clientRecv,
                   read_buffer, read_buffer_pos, super_buffer, clientNet,
                   originLine, originLines, originFirst, originExtra, capaLeft,
                   extern_read_buffer, childOut, childExit, episode>>
    /\ UNCHANGED <<managementVars, poolVars>>

\* a variant that never answers a failed filter with the -ERR line
et_write_never_reports(e) == FALSE

\* the test external_transformation_write makes before it replaces what is
\* buffered for the client by the -ERR line
et_write_reports_error(e) == e.error_wr /\ ~e.did_write

\* retrieved_messages after external_transformation_write has sent bytes,
\* finish_wr being the flag as the handler has just set it
et_write_retrieved(rm, finish_wr) == IF finish_wr THEN rm + 1 ELSE rm

\* transferred_bytes after external_transformation_write has sent n bytes
et_write_transferred(tb, n) == tb + n

external_transformation_write ==
    /\ state = "EXTERNAL_TRANSFORMATION"
    /\ client_interest = "WRITE"
    /\ LET first  == et_write_reports_error(et)
           second == et.error_wr /\ et.did_write /\ ~et.write_error
           e1     == [et EXCEPT !.write_error = first \/ second \/ @]
           b      == IF first THEN <<"err_could_not_open">>
                     ELSE IF second THEN Append(extern_read_buffer, "eom")
                     ELSE extern_read_buffer
           bytes_sent == IF et.send_bytes_write # 0 THEN et.send_bytes_write
                         ELSE Len(b)
       IN  \E n \in {-1} \cup (IF bytes_sent = 0 THEN {0} ELSE 1..bytes_sent) :
              IF n > 0
              THEN LET e2 == [e1 EXCEPT
                                 !.send_bytes_write = IF @ # 0 THEN @ - n ELSE @,
                                 !.finish_wr = (et.send_bytes_write # 0) \/ @,
                                 !.did_write = TRUE]
                   IN  /\ et' = e2
                       /\ extern_read_buffer' = Drop(b, n)
                       /\ retrBytes' = retrBytes + n
                       /\ retrieved_messages' =
                             et_write_retrieved(retrieved_messages, e2.finish_wr)
                       /\ transferred_bytes' =
                             et_write_transferred(transferred_bytes, n)
                       /\ clientRecv' = ClientGets(Take(b, n))
                       /\ IF (e2.error_wr \/ e2.finish_wr) /\ e2.send_bytes_write = 0
                          THEN IF finished_et(e2)
                               THEN et_leave
                               ELSE /\ clientDone' = "no"
                                    /\ et_stay("EXTERNAL_TRANSFORMATION", "NOOP",
                                               origin_interest,
                                               set_interest(ext_read_interest, "READ"),
                                               ext_write_interest)
                          ELSE /\ clientDone' = "no"
                               /\ IF ~e2.error_wr
                                  THEN et_stay("EXTERNAL_TRANSFORMATION", "NOOP",
                                               origin_interest,
                                               set_interest(ext_read_interest, "READ"),
                                               ext_write_interest)
                                  ELSE et_stay("EXTERNAL_TRANSFORMATION",
                                               client_interest, origin_interest,
                                               ext_read_interest, ext_write_interest)
              ELSE /\ et' = e1
                   /\ extern_read_buffer' = b
                   /\ UNCHANGED <<clientVars, metricVars>>
                   /\ et_stay(IF n = -1 THEN "ERROR" ELSE "EXTERNAL_TRANSFORMATION",
                              client_interest, origin_interest, ext_read_interest,
                              ext_write_interest)
    /\ last' = "external_transformation_write"
    /\ UNCHANGED <<configVars, resolvVars, sessionVars, parsedVars,
                   read_buffer, read_buffer_pos, write_buffer, write_buffer_pos,
                   super_buffer, clientNet, originNet, originLine, originLines,
                   originFirst, originExtra, capaLeft, childOut, childExit, episode>>
    /\ UNCHANGED <<managementVars, poolVars>>

\* what the filter makes of a byte of the mail
filter_byte(c) == IF c = "body" THEN "fbody" ELSE c

\* what the filter makes of the bytes x of the mail
RECURSIVE filter_bytes(_)
filter_bytes(x) ==
    IF x = <<>> THEN <<>> ELSE <<filter_byte(Head(x))>> \o filter_bytes(Tail(x))

\* the filter closes its output before it has written the end of the mail
child_exit ==
    /\ state = "EXTERNAL_TRANSFORMATION"
    /\ et.status = "et_status_ok"
    /\ ~childExit
    /\ ~parse_mail(extern_read_buffer \o childOut).fin
    /\ childExit' = TRUE
    /\ UNCHANGED <<state, client_interest, origin_interest, resolvVars,
                   configVars, metricVars, sessionVars, queueVars, parsedVars, bufferVars,
                   responseVars, originVars, clientVars, request_parser,
                   clientNet, respLog, last, et, extern_read_buffer,
                   ext_read_interest, ext_write_interest, extern_read_fd,
                   extern_write_fd, childOut,
                   episode, concurrent_connections, references, registered,
                   released>>
    /\ UNCHANGED <<managementVars, poolVars>>

\* the origin closes the connection while the proxy waits for its bytes, the
\* client having sent all it sends; what the origin had not sent yet is never
\* sent
origin_close ==
    /\ state \in {"RESPONSE", "EXTERNAL_TRANSFORMATION"}
    /\ origin_interest = "READ"
    /\ clientNet = <<>>
    /\ ~originClosed
    /\ originClosed' = TRUE
    /\ originNet' = <<>>
    /\ UNCHANGED <<state, client_interest, origin_interest, resolvVars,
                   et_activated, filter_command, originCapa, vocabulary, shortWrites,
                   metricVars, sessionVars, queueVars, parsedVars, bufferVars,
                   responseVars, clientVars, request_parser, clientNet,
                   respLog, last, etVars, originLine, originLines,
                   originFirst, originExtra, outstanding, capaLeft,
                   concurrent_connections, references, registered,
                   released>>
    /\ UNCHANGED <<managementVars, poolVars>>

\* the byte counts read can return on the filter's output
ReadCounts == {-1} \cup (1..Len(childOut))
                   \cup (IF childOut = <<>> /\ childExit THEN {0} ELSE {})

ext_read ==
    /\ state = "EXTERNAL_TRANSFORMATION"
    /\ ext_read_interest = "READ"
    /\ \E n \in ReadCounts :
          IF n < 0
          THEN /\ ext_read_interest' = "unreg"
               /\ extern_read_fd' = selector_unregister_fd(ext_read_interest, extern_read_fd)
               /\ et' = [et EXCEPT !.error_wr = TRUE]
               /\ client_interest' = "WRITE"
               /\ UNCHANGED <<extern_read_buffer, childOut>>
          ELSE LET b  == extern_read_buffer \o Take(childOut, n)
                   pm == parse_mail(b)
               IN  /\ extern_read_buffer' = b
                   /\ childOut' = Drop(childOut, n)
                   /\ et' = [et EXCEPT !.send_bytes_write = pm.send_bytes,
                                       !.error_wr = (~pm.fin /\ n = 0) \/ @]
                   /\ ext_read_interest' = IF pm.fin \/ n = 0 THEN "unreg" ELSE "NOOP"
                   /\ extern_read_fd' =
                         IF pm.fin \/ n = 0
                         THEN selector_unregister_fd(ext_read_interest, extern_read_fd)
                         ELSE extern_read_fd
                   /\ client_interest' = "WRITE"
    /\ last' = "ext_read"
    /\ UNCHANGED <<state, origin_interest, resolvVars, configVars, metricVars, sessionVars,
                   queueVars, parsedVars, bufferVars, responseVars, originVars,
                   clientVars, request_parser, clientNet, respLog,
                   ext_write_interest, extern_write_fd, childExit, episode,
                   concurrent_connections, references, registered,
                   released>>
    /\ UNCHANGED <<managementVars, poolVars>>

ext_write ==
    /\ state = "EXTERNAL_TRANSFORMATION"
    /\ ext_write_interest = "WRITE"
    /\ LET bytes_sent == IF et.send_bytes_read # 0 THEN et.send_bytes_read
                         ELSE Len(write_buffer)
       IN  \E n \in {-1} \cup (IF bytes_sent = 0 THEN {0} ELSE 1..bytes_sent) :
              IF n > 0
              THEN LET left == IF et.send_bytes_read # 0
                               THEN et.send_bytes_read - n ELSE 0
                   IN  /\ et' = [et EXCEPT !.send_bytes_read = left]
                       /\ childOut' = IF childExit THEN childOut
                                      ELSE childOut \o filter_bytes(Take(write_buffer, n))
                       /\ episode' = [episode EXCEPT
                                         !.wrote = @ \/ ~childExit,
                                         !.toChild = @ \o Take(write_buffer, n)]
                       /\ write_buffer' = Drop(write_buffer, n)
                       /\ write_buffer_pos' =
                             buffer_pos(Drop(write_buffer, n), write_buffer_pos)
                       /\ IF et.finish_rd /\ left = 0
                          THEN /\ ext_write_interest' = "unreg"
                               /\ extern_write_fd' =
                                     selector_unregister_fd(ext_write_interest,
                                                            extern_write_fd)
                               /\ origin_interest' = origin_interest
                          ELSE /\ ext_write_interest' = "NOOP"
                               /\ extern_write_fd' = extern_write_fd
                               /\ origin_interest' = "READ"
              ELSE IF n = -1
              THEN LET b == IF et.send_bytes_read = 0 THEN <<>>
                            ELSE Drop(write_buffer, et.send_bytes_read)
                   IN  /\ et' = [et EXCEPT !.status = "et_status_err",
                                           !.error_rd = TRUE]
                       /\ write_buffer' = b
                       /\ write_buffer_pos' = buffer_pos(b, write_buffer_pos)
                       /\ ext_write_interest' = "unreg"
                       /\ extern_write_fd' =
                             selector_unregister_fd(ext_write_interest, extern_write_fd)
                       /\ origin_interest' = "READ"
                       /\ UNCHANGED <<childOut, episode>>
              ELSE UNCHANGED <<et, write_buffer, write_buffer_pos,
                               ext_write_interest, extern_write_fd,
                               origin_interest, childOut, episode>>
    /\ last' = "ext_write"
    /\ UNCHANGED <<state, client_interest, resolvVars, configVars, metricVars, sessionVars,
                   queueVars, parsedVars, responseVars, originVars, clientVars,
                   request_parser, clientNet, respLog, read_buffer,
                   read_buffer_pos, super_buffer, extern_read_buffer,
                   ext_read_interest, extern_read_fd, childExit,
                   concurrent_connections, references, registered,
                   released>>
    /\ UNCHANGED <<managementVars, poolVars>>

Next ==
    \/ origin_resolv
    \/ origin_resolv_blocking
    \/ origin_resolv_done
    \/ connecting
    \/ hello_read
    \/ hello_write
    \/ capa_read
    \/ request_read
    \/ request_write
    \/ response_read
    \/ response_write
    \/ external_transformation_read
    \/ external_transformation_write
    \/ ext_read
    \/ ext_write
    \/ child_exit
    \/ origin_close

Spec == Init /\ [][Next]_vars

\* the sessions in which the client authenticates and quits: it sends PASS,
\* RETR and QUIT, each of which the origin may refuse, it sends all its
\* command lines, and a filter command is configured
PhaseVocabulary ==
    [client |-> {"pass", "retr", "quit"}, refused |-> {"pass", "retr", "quit"}]

PhaseInit ==
    /\ InitWith(PhaseVocabulary)
    /\ clientNet = ClientLines(MaxCmds)
    /\ originCapa \in {<<"cap">>, <<"cap", "PIPE">>}
    /\ filter_command = "cmd"

PhaseSpec == PhaseInit /\ [][Next]_vars

\* the response to response_request has been flushed to the client in this
\* step: response_write has sent the last bytes of a complete response
ResponseFlushed ==
    /\ state = "RESPONSE"
    /\ client_interest = "WRITE"
    /\ response_parser.state = "response_done"
    /\ super_buffer' = <<>>
    /\ respLog' = Append(respLog, response_request.seq)

\* a step that changes the phase
PhaseStep ==
    session_state' # session_state =>
        /\ ResponseFlushed
        /\ \/ /\ session_state' = "TRANSACTION"
              /\ session_state = "AUTHORIZATION"
              /\ response_request.cmd = "pass"
              /\ response_parser.status = "ok"
           \/ /\ session_state' = "UPDATE"
              /\ session_state \in {"AUTHORIZATION", "TRANSACTION"}
              /\ response_request.cmd = "quit"

\* C35: the phase is AUTHORIZATION when the session starts and after the
\* origin connect, it becomes TRANSACTION only in the step that flushes an OK
\* response to a PASS, it becomes UPDATE only in the step that flushes the
\* response to a QUIT, and it never goes back to an earlier phase
C35_PhaseProgress ==
    /\ session_state = "AUTHORIZATION"
    /\ [][PhaseStep]_vars
    /\ [](state \in {"ORIGIN_RESOLV", "CONNECTING", "HELLO", "CAPA"}
            => session_state = "AUTHORIZATION")

\* the OK response to a PASS has just been flushed to the client
C35_Witness ==
    /\ session_state = "TRANSACTION"
    /\ last = "response_process"
    /\ clientDone = "pass"

\* a step that flushes the response to a QUIT ends the session, and a step
\* that ends the session flushes the response to a QUIT or processes the
\* third invalid command in a row
QuitStep ==
    /\ (ResponseFlushed /\ response_request.cmd = "quit") => state' = "DONE"
    /\ (state' = "DONE" /\ state # "DONE")
          => \/ ResponseFlushed /\ response_request.cmd = "quit"
             \/ /\ state = "REQUEST"
                /\ invalidRun = MAX_CONCURRENT_INVALID_COMMANDS - 1
                /\ invalidRun' = MAX_CONCURRENT_INVALID_COMMANDS

\* C36: the step that flushes the whole response to a QUIT takes the session
\* to DONE, whatever the status of the response and whatever is queued
\* behind the QUIT, and the session reaches DONE in no other step than this
\* one and the one that processes the third consecutive invalid command
C36_QuitEndsSession == [][QuitStep]_vars

\* the session has ended on a QUIT the origin refused, with a request still
\* queued behind it
C36_Witness ==
    /\ state = "DONE"
    /\ clientDone = "quit"
    /\ response_parser.status = "err"
    /\ ~queue_is_empty(request_queue)

\* C37: in HELLO, CAPA, REQUEST and RESPONSE, after every handler, exactly
\* one of the client and origin descriptors has a non-empty interest set
C37_OneDescriptorArmed ==
    state \in {"HELLO", "CAPA", "REQUEST", "RESPONSE"}
        => (client_interest # "NOOP") # (origin_interest # "NOOP")

\* the response to a request has been flushed with another request queued
\* and no pipelining: the client is disarmed and the origin armed for write
C37_Witness ==
    /\ state = "REQUEST"
    /\ last = "response_process"
    /\ client_interest = "NOOP"
    /\ origin_interest = "WRITE"

\* C38: without pipelining, while the session is in RESPONSE for a request,
\* the commands not yet written to the origin are at most those of the
\* requests still queued: the request whose response is awaited has been
\* written to the origin
C38_AwaitedRequestWritten ==
    (~pipelining /\ state = "RESPONSE")
        => Len(toOrigin) <= Len(marshall_all(request_queue))

\* C39: in REQUEST, when the request queue is not empty and the client input
\* buffer holds no unparsed bytes, the origin is armed for writing
C39_QueuedRequestArmsOrigin ==
    (state = "REQUEST" /\ ~queue_is_empty(request_queue)
                       /\ ~buffer_can_read(read_buffer))
        => origin_interest = "WRITE"

\* ------------------------------------------------------ management channel
\* The management connection (unnamed/part_000) and the configuration it
\* writes.  One connection at a time is modelled; a connection accepted
\* after another one has been closed is given the memory the closed one
\* has freed.  A command line is a sequence of words.

\* the session's variables, which no management handler touches
pop3Vars == <<state, client_interest, origin_interest, origin_fd, resolver,
              origin_resolution, read_buffer, read_buffer_pos, write_buffer,
              super_buffer, request_queue, queue_current, pipelining,
              concurrent_invalid_commands, session_state, request_parser,
              response_request, response_parser,
              clientNet, clientRecv, clientDone, originNet, originLine,
              originLines, originFirst, toOrigin, originExtra, outstanding,
              shortWrites, capaLeft, write_buffer_pos, originCapa, vocabulary,
              nParsed,
              nValid, invalidRun, respLog, last, et, extern_read_buffer,
              ext_read_interest, ext_write_interest, extern_read_fd,
              extern_write_fd, childOut, childExit,
              concurrent_connections, references, registered, released,
          retrieved_messages, transferred_bytes,
              retrBytes, episode, originClosed>>

\* parameters->user and parameters->pass
parameters_user == "admin"
parameters_pass == "secret"

\* the media types a command may name, in the order LIST prints them, and
\* an argument that is no media type
MediaTypeOrder == <<"image/*", "text/plain">>
MediaTypes     == {MediaTypeOrder[i] : i \in 1..Len(MediaTypeOrder)}
BadMediaTypes  == {"bogus"}

\* the command lines a management client may send
ManagementLines ==
    {<<"USER", "admin">>, <<"USER", "bob">>, <<"user", "admin">>, <<"USER">>,
     <<"PASS", "secret">>, <<"PASS", "bad">>,
     <<"CMD">>, <<"CMD", "cmd">>, <<"CMD", "a", "b">>,
     <<"MSG", "txt">>, <<"MSG">>, <<"LIST">>, <<"LIST", "x">>,
     <<"STATS">>, <<"NOOP">>, <<"QUIT">>, <<"quit">>}
    \cup {<<"BAN", t>> : t \in MediaTypes \cup BadMediaTypes}
    \cup {<<"UNBAN", t>> : t \in MediaTypes \cup BadMediaTypes}

\* toupper applied to the letters of a word
to_upper_word(w) ==
    CASE w = "user" -> "USER"
      [] w = "quit" -> "QUIT"
      [] OTHER      -> w

\* strcasecmp: 0 when the words are equal but for the case of their letters
strcasecmp(a, b) == IF to_upper_word(a) = to_upper_word(b) THEN 0 ELSE 1

\* sctp_parse_cmd: the words of the line read from the connection, or an
\* error
sctp_parse_cmd ==
    {[cmd |-> l, argc |-> Len(l), error |-> "PARSE_OK"] : l \in ManagementLines}
    \cup {[cmd |-> <<>>, argc |-> 0, error |-> e] :
             e \in {"ERROR_MALLOC", "ERROR_DISCONNECT"}}

\* what split_commands returns: -1 on ERROR_DISCONNECT; otherwise control
\* reaches the end of the function, which has no return statement, and the
\* caller tests a value that is not defined
split_commands(error) == IF error = "ERROR_DISCONNECT" THEN {-1} ELSE {-1, 0}

\* is_mime: 0 for type/subtype, negative otherwise
is_mime(str) == IF str \in MediaTypes THEN 0 ELSE -1

\* add_media_type and delete_media_type on the filtered set
add_media_type(set, t)    == set \cup {t}
delete_media_type(set, t) == set \ {t}

\* get_types_list: the media types of the set, one per line
get_types_list(set) == SelectSeq(MediaTypeOrder, LAMBDA t : t \in set)

\* send_ok, send_error and the greeting: the reply the client is sent; list
\* holds the lines of the answer to LIST
send_ok(text)    == [kind |-> "ok", text |-> text, list |-> <<>>]
send_error(text) == [kind |-> "err", text |-> text, list |-> <<>>]
greeting         == [kind |-> "greeting", text |-> "POP3 Proxy Management Server.",
                     list |-> <<>>]

\* send_ok of what get_types_list has made of the filtered set
send_list(msg) == [kind |-> "ok", text |-> "list", list |-> msg]

\* the shared configuration the management channel writes
parameters ==
    [et_activated |-> et_activated, filter_command |-> filter_command,
     replacement_msg |-> replacement_msg,
     filtered_media_types |-> filtered_media_types]

\* the fields of struct management the command handlers read and write
management == [status |-> mgmt_status, user |-> mgmt_user,
               argc |-> mgmt_argc, cmd |-> mgmt_cmd]

\* what a command handler leaves: the connection's status and user, the
\* configuration, the reply sent (no_reply when none is) and the value
\* returned
handled(d, p, r, ret) ==
    [status |-> d.status, user |-> d.user, p |-> p, reply |-> r, ret |-> ret,
     crash |-> FALSE]

\* the handler writes through a null pointer
crashed(d, p) == [handled(d, p, no_reply, 0) EXCEPT !.crash = TRUE]

\* action_list[status]->args
act_args(st) == IF st \in {"ST_USER", "ST_PASS"} THEN 2 ELSE 0

parse_hello(d, p) == handled([d EXCEPT !.status = "ST_USER"], p, greeting, 0)

\* mem: whether malloc succeeds
parse_user(d, p, mem) ==
    IF strcasecmp("USER", d.cmd[1]) = 0
    THEN IF ~mem
         THEN handled(d, p, no_reply, -1)
         ELSE handled([d EXCEPT !.user = d.cmd[2], !.status = "ST_PASS"], p,
                      send_ok("Welcome"), 0)
    ELSE handled(d, p, send_error("command not recognized."), 0)

\* a variant that lets every PASS command in
pass_matches_always(pass, user) == TRUE

\* a variant that checks the password only
pass_matches_password_only(pass, user) == pass = parameters_pass

\* strcmp(parameters->pass, cmd[1]) == 0 && strcmp(parameters->user,
\* data->user) == 0
pass_matches(pass, user) == pass = parameters_pass /\ user = parameters_user

parse_pass(d, p) ==
    IF strcasecmp("PASS", d.cmd[1]) = 0
    THEN IF pass_matches(d.cmd[2], d.user)
         THEN handled([d EXCEPT !.status = "ST_CONFIG"], p,
                      send_ok("Logged in."), 0)
         ELSE handled([d EXCEPT !.status = "ST_USER"], p,
                      send_error("Authentication failed. Try again."), 0)
    ELSE handled(d, p, send_error("command not recognized."), 0)

\* a variant of the toggle that only ever activates
cmd_activate(b) == TRUE

\* parameters->et_activated = !parameters->et_activated
cmd_toggle(b) == ~b

\* mem: whether malloc succeeds
parse_config(d, p, mem) ==
    LET verb      == d.cmd[1]
        fail      == handled(d, p, send_error("command not recognized."), 0)
        fail_mem  == handled(d, p, send_error("server error."), 0)
        fail_type == handled(d, p, send_error("wrong media type."), 0)
        success(q) == handled(d, q, send_ok("Done."), 0)
    IN  IF strcasecmp("CMD", verb) = 0
        THEN IF d.argc = 1
             THEN LET q == [p EXCEPT !.et_activated = cmd_toggle(@)]
                  IN  handled(d, q,
                              IF q.et_activated
                              THEN send_ok("External transformations activated.")
                              ELSE send_ok("External transformations deactivated."),
                              0)
             ELSE IF d.argc # 2 THEN fail
             ELSE IF ~mem THEN crashed(d, p)
             ELSE success([p EXCEPT !.filter_command = d.cmd[2]])
        ELSE IF strcasecmp("MSG", verb) = 0
        THEN IF d.argc # 2 THEN fail
             ELSE IF ~mem THEN fail_mem
             ELSE success([p EXCEPT !.replacement_msg = d.cmd[2]])
        ELSE IF strcasecmp("LIST", verb) = 0
        THEN IF d.argc # 1 THEN fail
             ELSE handled(d, p, send_list(get_types_list(p.filtered_media_types)), 0)
        ELSE IF strcasecmp("BAN", verb) = 0
        THEN IF d.argc # 2 THEN fail
             ELSE IF ~mem THEN fail_mem
             ELSE IF is_mime(d.cmd[2]) < 0 THEN fail_type
             ELSE handled(d,
                          [p EXCEPT !.filtered_media_types =
                                        add_media_type(@, d.cmd[2])],
                          send_ok("type banned"), 0)
        ELSE IF strcasecmp("UNBAN", verb) = 0
        THEN IF d.argc # 2 THEN fail
             ELSE IF is_mime(d.cmd[2]) < 0 THEN fail_type
             ELSE handled(d,
                          [p EXCEPT !.filtered_media_types =
                                        delete_media_type(@, d.cmd[2])],
                          send_ok("type unbanned"), 0)
        ELSE IF strcasecmp("STATS", verb) = 0
        THEN IF d.argc # 1 THEN fail
             ELSE handled(d, p, send_ok("Metrics"), 0)
        ELSE fail

\* goodbye: the reply, close, and -1
goodbye(d, p) == handled(d, p, send_ok("Goodbye."), -1)

\* the error parse_commands switches on
st_err(d, error) ==
    IF act_args(d.status) # 0 /\ act_args(d.status) # d.argc
    THEN "ERROR_WRONGARGS" ELSE error

\* the test parse_commands makes for QUIT; cmd[0] is read only when argc is 1
is_quit(d) == d.argc = 1 /\ strcasecmp("QUIT", d.cmd[1]) = 0

\* parse_commands, once the test for QUIT has been made and has not ended
\* the process
parse_commands(d, p, error, mem) ==
    IF is_quit(d) THEN goodbye(d, p)
    ELSE CASE st_err(d, error) = "PARSE_OK" ->
                 (CASE d.status = "ST_HELO"   -> parse_hello(d, p)
                    [] d.status = "ST_USER"   -> parse_user(d, p, mem)
                    [] d.status = "ST_PASS"   -> parse_pass(d, p)
                    [] d.status = "ST_CONFIG" -> parse_config(d, p, mem))
           [] st_err(d, error) = "ERROR_WRONGARGS" ->
                 handled(d, p, send_error("wrong command or wrong number of arguments."), 0)
           [] st_err(d, error) = "ERROR_MALLOC" ->
                 handled(d, p, send_error("server error. Try again later."), 0)
           [] OTHER -> handled(d, p, no_reply, 0)

\* management_new: status and error are set; argc and cmd are not, and hold
\* what the memory held: the values a closed connection left there, or
\* anything else
management_new ==
    /\ mgmt_status' = "ST_HELO"
    /\ mgmt_error' = "PARSE_OK"
    /\ mgmt_user' = "unset"
    /\ \E m \in {<<mgmt_argc, mgmt_cmd>>} \cup {<<n, garbage>> : n \in 0..1} :
          mgmt_argc' = m[1] /\ mgmt_cmd' = m[2]

\* a failed accept changes nothing
management_accept_connection ==
    /\ management_interest = "none"
    /\ management_new
    /\ management_interest' = "WRITE"
    /\ reply' = no_reply
    /\ prev' = no_prev
    /\ UNCHANGED <<pop3Vars, et_activated, filter_command, replacement_msg,
                   filtered_media_types, poolVars>>

\* a negative return of split_commands unregisters the descriptor, and
\* management_close frees the connection
management_read ==
    /\ management_interest = "READ"
    /\ \E res \in sctp_parse_cmd :
          /\ mgmt_argc' = res.argc
          /\ mgmt_cmd' = res.cmd
          /\ mgmt_error' = res.error
          /\ \E ret \in split_commands(res.error) :
                management_interest' = IF ret < 0 THEN "none" ELSE "WRITE"
    /\ UNCHANGED <<pop3Vars, et_activated, filter_command, replacement_msg,
                   filtered_media_types, mgmt_status, mgmt_user, reply, prev,
                   poolVars>>

\* parse_commands reads cmd[0] when argc is 1: through a pointer that was
\* never set the read ends the process or finds some other word
management_write ==
    /\ management_interest = "WRITE"
    /\ \/ /\ mgmt_argc = 1 /\ mgmt_cmd = garbage
          /\ management_interest' = "crashed"
          /\ UNCHANGED <<et_activated, filter_command, replacement_msg,
                         filtered_media_types, mgmt_status, mgmt_user, reply,
                         prev>>
       \/ \E mem \in BOOLEAN :
             LET h == parse_commands(management, parameters, mgmt_error, mem)
             IN  /\ mgmt_status' = h.status
                 /\ mgmt_user' = h.user
                 /\ et_activated' = h.p.et_activated
                 /\ filter_command' = h.p.filter_command
                 /\ replacement_msg' = h.p.replacement_msg
                 /\ filtered_media_types' = h.p.filtered_media_types
                 /\ reply' = h.reply
                 /\ management_interest' =
                       IF h.crash THEN "crashed"
                       ELSE IF h.ret < 0 THEN "none" ELSE "READ"
                 /\ prev' = IF /\ ~is_quit(management)
                               /\ mgmt_status = "ST_CONFIG"
                               /\ st_err(management, mgmt_error) = "PARSE_OK"
                            THEN handled_in_a_row(prev, mgmt_cmd, parameters, h.reply)
                            ELSE no_prev
    /\ UNCHANGED <<pop3Vars, mgmt_error, mgmt_argc, mgmt_cmd, poolVars>>

\* the management channel with the session at rest
ManagementInit == Init /\ clientNet = <<>> /\ originCapa = <<"cap">>

ManagementNext ==
    \/ management_accept_connection
    \/ management_read
    \/ management_write

ManagementSpec == ManagementInit /\ [][ManagementNext]_vars

\* ------------------------------------------------------------ session pool
\* pop3_new: the record a new session gets and the free-list it leaves; mem
\* is whether malloc returns a record
pop3_new(pl, mem) ==
    IF pl = <<>>
    THEN [ret |-> IF mem THEN "record" ELSE "NULL", pool |-> pl]
    ELSE [ret |-> Head(pl), pool |-> Tail(pl)]

\* pop3_destroy of a record whose count is 1: it goes to the head of the
\* free-list while pool_size is below max_pool and is freed otherwise
pop3_destroy_pool(pl, size) ==
    IF size < max_pool
    THEN [pool |-> <<"record">> \o pl, pool_size |-> size + 1]
    ELSE [pool |-> pl, pool_size |-> size]

\* a connection is accepted and pop3_new gives it a record
pop3_passive_accept ==
    /\ sessions < MaxSessions
    /\ \E mem \in BOOLEAN :
          LET n == pop3_new(pool, mem)
          IN  /\ pool' = n.pool
              /\ sessions' = IF n.ret = "NULL" THEN sessions ELSE sessions + 1
    /\ UNCHANGED <<pool_size, pop3Vars, configVars, managementVars>>

\* the last descriptor of a session is unregistered and pop3_destroy
\* releases its record
pop3_destroy_last ==
    /\ sessions > 0
    /\ sessions' = sessions - 1
    /\ LET d == pop3_destroy_pool(pool, pool_size)
       IN  pool' = d.pool /\ pool_size' = d.pool_size
    /\ UNCHANGED <<pop3Vars, configVars, managementVars>>

\* the acceptor and the pool with the session at rest
PoolInit == ManagementInit

PoolNext ==
    \/ pop3_passive_accept
    \/ pop3_destroy_last

PoolSpec == PoolInit /\ [][PoolNext]_vars

\* ------------------------------------------------------------- properties

\* C1: every byte the proxy writes to the origin after its own CAPA is the
\* next byte of the valid commands parsed from the client, so that the
\* origin receives a prefix of those commands, none omitted, duplicated or
\* reordered
C1_OriginGetsParsedCommands == originExtra = <<>>

\* C2: the client receives the responses in the order of the commands they
\* answer (the -ERR to an invalid command counts as its response)
C2_ResponsesInRequestOrder ==
    \A i \in 1..(Len(respLog) - 1) : respLog[i] < respLog[i + 1]

\* C3: without pipelining the origin holds at most one command whose
\* response has not been delivered to the client in full
C3_OneOutstanding == ~pipelining => outstanding <= 1

WellFormedCapa(r) ==
    /\ Len(r) >= 3
    /\ r[1] = "ok"
    /\ r[Len(r)] = "dot"
    /\ \A i \in 2..(Len(r) - 1) : r[i] \in {"cap", "CAP", "pipe", "PIPE"}
    /\ \E i \in 2..(Len(r) - 1) : r[i] \in {"pipe", "PIPE"}

\* C5: the response the client receives to a CAPA it issued is a
\* well-formed multi-line response that lists PIPELINING
C5_CapaListWellFormed == clientDone = "capa" => WellFormedCapa(clientRecv)

\* C6: when the HELLO flush is complete the client has received the proxy
\* banner immediately followed by the origin's greeting, and nothing else
C6_BannerThenGreeting == clientDone = "hello" => clientRecv = <<"banner", "greet">>

\* C7: the counter is the number of invalid commands since the last valid
\* one and stays below 3 while the session runs; the session is DONE for
\* abuse exactly when the third consecutive invalid command has been
\* processed, and the client has then been sent that command's -ERR and the
\* too-many-invalid-commands line
C7_AbuseAtThirdInvalid ==
    /\ concurrent_invalid_commands = invalidRun
    /\ ~Terminal(state) => concurrent_invalid_commands < MAX_CONCURRENT_INVALID_COMMANDS
    /\ invalidRun >= MAX_CONCURRENT_INVALID_COMMANDS
          => /\ state = "DONE"
             /\ invalidRun = MAX_CONCURRENT_INVALID_COMMANDS
             /\ Len(clientRecv) = 2
             /\ clientRecv[1] \in {"err_unknown_command", "err_command_too_long",
                                   "err_parameter_too_long"}
             /\ clientRecv[2] = "err_too_many"
    /\ state = "DONE"
          => \/ invalidRun = MAX_CONCURRENT_INVALID_COMMANDS
             \/ clientDone = "quit"

C7_Witness ==
    /\ state = "DONE"
    /\ invalidRun = MAX_CONCURRENT_INVALID_COMMANDS
    /\ clientRecv[2] = "err_too_many"

\* the step in which an invalid client command is processed
InvalidProcessed == nParsed' = nParsed + 1 /\ invalidRun' = invalidRun + 1

\* C8: processing an invalid command sends its -ERR line to the client,
\* leaves the request queue and what the origin has been sent unchanged,
\* and keeps the session in REQUEST unless it is the third in a row
C8_InvalidCommandRejected ==
    [][InvalidProcessed =>
          /\ clientDone' = "reject"
          /\ clientRecv'[1] \in {"err_unknown_command", "err_command_too_long",
                                 "err_parameter_too_long"}
          /\ request_queue' = request_queue
          /\ UNCHANGED <<originNet, originLine, originLines, toOrigin, originExtra>>
          /\ invalidRun' < MAX_CONCURRENT_INVALID_COMMANDS
                => (state' = "REQUEST" /\ Len(clientRecv') = 1)]_vars

C8_Witness ==
    /\ last = "request_process_invalid"
    /\ state = "REQUEST"
    /\ clientDone = "reject"
    /\ Len(request_queue) = 1

\* C9: the session does not wait for the client while a complete command
\* that it has not parsed sits in its input buffer
C9_NoWaitWithUnparsedCommands ==
    ~(/\ state = "REQUEST"
      /\ client_interest = "READ"
      /\ origin_interest # "WRITE"
      /\ clientNet = <<>>
      /\ \E i \in 1..Len(read_buffer) : read_buffer[i] = "nl")

\* the step in which the first line of a response is parsed
FirstLineParsed ==
    /\ state = "RESPONSE"
    /\ response_parser.status = "none"
    /\ response_parser'.status # "none"

\* C10: RESPONSE leaves for EXTERNAL_TRANSFORMATION exactly in the step
\* that parses the first line of an OK response to RETR while et_activated
\* is true and filter_command is set; otherwise no filter is started
C10_FilterIffRetrOk ==
    [][/\ (state = "RESPONSE" /\ state' = "EXTERNAL_TRANSFORMATION")
             <=> (/\ FirstLineParsed
                  /\ response_request.cmd = "retr"
                  /\ response_parser'.status = "ok"
                  /\ et_activated
                  /\ filter_command # "null")
       /\ (state = "RESPONSE" /\ state' # "EXTERNAL_TRANSFORMATION")
             => UNCHANGED etVars]_vars

C10_Witness ==
    /\ state = "EXTERNAL_TRANSFORMATION"
    /\ last = "response_read_et"
    /\ response_request.cmd = "retr"


\* the selector holds a descriptor of the session with an interest set, so
\* that some handler of the session can still be called
Armed ==
    \/ client_interest # "NOOP"
    \/ origin_interest # "NOOP"
    \/ ext_read_interest \in {"READ", "WRITE"}
    \/ ext_write_interest \in {"READ", "WRITE"}

\* C11: when the filter could not be spawned, the client is sent -ERR could
\* not open external transformation and the session goes on to REQUEST or
\* RESPONSE: as long as it is in EXTERNAL_TRANSFORMATION the -ERR line is
\* what the client is being sent and some handler can still be called
C11_SpawnFailureRecovers ==
    (state = "EXTERNAL_TRANSFORMATION" /\ ~episode.spawned)
        => /\ Armed
           /\ et.did_write => clientRecv = <<"err_could_not_open">>


\* the session has just left EXTERNAL_TRANSFORMATION for REQUEST or RESPONSE
LeftEt ==
    /\ state \in {"REQUEST", "RESPONSE"}
    /\ last \in {"external_transformation_read", "external_transformation_write"}

\* the filter of the run that has just ended was spawned and closed its
\* output without having written anything
ChildSilent == LeftEt /\ episode.spawned /\ ~episode.wrote /\ childExit

WellFormedMail(r) ==
    /\ Len(r) >= 2
    /\ r[1] = "ok_sending_mail"
    /\ r[Len(r)] \in {"dot", "eom"}
    /\ \A i \in 2..(Len(r) - 1) : r[i] = "fbody"

\* r is the beginning of such a response
MailPrefix(r) ==
    \A i \in 1..Len(r) :
        IF i = 1 THEN r[i] = "ok_sending_mail"
        ELSE r[i] = "fbody" \/ (i = Len(r) /\ r[i] \in {"dot", "eom"})

\* C13: in a run of the filter that was spawned and has produced output,
\* with no read or write on the filter's pipes failing, the client receives
\* the preface +OK sending mail once, before the filter's output, and a
\* body that ends with exactly one terminator: what it has received so far
\* begins such a response, the delivery can go on while the session is in
\* EXTERNAL_TRANSFORMATION, and the response is complete when the run ends
C13_PrefaceBodyTerminator ==
    (episode.spawned /\ episode.wrote /\ ~et.error_wr /\ ~et.error_rd)
        => /\ (state = "EXTERNAL_TRANSFORMATION" /\ et.did_write)
                  => MailPrefix(clientRecv)
           /\ state = "EXTERNAL_TRANSFORMATION" => Armed
           /\ LeftEt => WellFormedMail(clientRecv)


\* the bytes of a mail as the origin sends them after the status line, up to
\* and including the terminator
MailBody == Tail(OriginAnswer("retr", "ok", <<>>))

IsPrefix(a, b) == Len(a) <= Len(b) /\ a = SubSeq(b, 1, Len(a))

\* C14: in a run of the filter with no read or write on its pipes failing,
\* the bytes written to the filter's input are the bytes of the mail up to
\* and including the terminator, each once and in order, however the
\* transfer is split: they always begin the mail, the rest can still be
\* written once the origin has sent the terminator, and they are the whole
\* mail when the run ends
C14_ChildGetsTheMail ==
    (episode.spawned /\ ~et.error_rd /\ ~et.error_wr)
        => /\ IsPrefix(episode.toChild, MailBody)
           /\ (state = "EXTERNAL_TRANSFORMATION" /\ et.finish_rd
                   /\ episode.toChild # MailBody)
                  => ext_write_interest = "WRITE"
           /\ LeftEt => episode.toChild = MailBody


OtherHandlerReady ==
    \/ client_interest = "WRITE"
    \/ client_interest = "READ" /\ clientNet # <<>>
    \/ origin_interest = "WRITE"
    \/ ext_read_interest = "READ"
    \/ ext_write_interest = "WRITE"

\* C16: once a read from the origin has returned end of file in RESPONSE or
\* EXTERNAL_TRANSFORMATION the session goes on to ERROR: it is not left in
\* that state with nothing to run but the same read of the closed socket
C16_OriginEofEndsSession ==
    (/\ state \in {"RESPONSE", "EXTERNAL_TRANSFORMATION"}
     /\ last \in {"response_read_eof", "external_transformation_read_eof"}
     /\ originClosed /\ originNet = <<>>)
        => OtherHandlerReady


\* C17: when origin resolution or the connect to the origin fails
\* (origin_resolv_done or connecting ends in ERROR), the client has been
\* sent an -ERR line
C17_ConnectFailureReported ==
    (state = "ERROR" /\ last \in {"origin_resolv_done", "connecting"})
        => /\ clientDone = "error"
           /\ clientRecv \in {<<"err_invalid_domain">>,
                              <<"err_connection_refused">>}


\* the session has an established origin connection and is in neither DONE
\* nor ERROR
EstablishedSessions ==
    IF state \in {"HELLO", "CAPA", "REQUEST", "RESPONSE",
                  "EXTERNAL_TRANSFORMATION"}
    THEN 1 ELSE 0

\* concurrent_connections equals the number of sessions that have an
\* established origin connection and are not in DONE or ERROR
C18_ConcurrentCountsEstablished ==
    concurrent_connections = EstablishedSessions

\* C18: a session in DONE or ERROR is not counted, so once the only session
\* has terminated (here after a resolution or connect failure as well)
\* concurrent_connections is zero
C18_TerminatedNotCounted ==
    Terminal(state) => concurrent_connections = 0


\* this step completes the delivery of a RETR response to the client: in
\* RESPONSE the write that sends the last bytes of the response to a RETR,
\* in EXTERNAL_TRANSFORMATION the write after which the client holds the
\* preface, the body and the terminator
RetrDeliveryCompletes ==
    \/ /\ state = "RESPONSE"
       /\ response_request.cmd = "retr"
       /\ respLog' # respLog
    \/ /\ state = "EXTERNAL_TRANSFORMATION"
       /\ retrBytes' # retrBytes
       /\ WellFormedMail(clientRecv')

\* C19: retrieved_messages grows by exactly 1 in a step that completes the
\* delivery of a RETR response to the client, in RESPONSE or in
\* EXTERNAL_TRANSFORMATION and whatever the sizes of the client writes, and
\* does not change in any other step
C19_RetrievedCountsDeliveries ==
    [][retrieved_messages' =
           retrieved_messages + (IF RetrDeliveryCompletes THEN 1 ELSE 0)]_vars


\* C20: in every step transferred_bytes grows by exactly the number of bytes
\* the step sends to the client in RESPONSE for a RETR request or in
\* EXTERNAL_TRANSFORMATION (the growth of retrBytes), and so by nothing in
\* any other step
C20_TransferredCountsBytes ==
    [][transferred_bytes' - transferred_bytes = retrBytes' - retrBytes]_vars


\* ------------------------------------------- properties of the management
\* a management connection exists
Connected == management_interest \in {"READ", "WRITE"}

\* C21: the status of a management connection changes only from HELO to
\* USER with the greeting sent, from USER to PASS on a USER command, from
\* PASS to CONFIG on a PASS command whose password and whose user both
\* equal the configured credentials, and from PASS to USER on any other
\* PASS command; CONFIG is never left
C21_ManagementTransitions ==
    [][(Connected /\ mgmt_status' # mgmt_status) =>
          \/ /\ mgmt_status = "ST_HELO" /\ mgmt_status' = "ST_USER"
             /\ reply' = greeting
          \/ /\ mgmt_status = "ST_USER" /\ mgmt_status' = "ST_PASS"
             /\ mgmt_argc = 2 /\ strcasecmp("USER", mgmt_cmd[1]) = 0
          \/ /\ mgmt_status = "ST_PASS" /\ mgmt_status' = "ST_CONFIG"
             /\ mgmt_argc = 2 /\ strcasecmp("PASS", mgmt_cmd[1]) = 0
             /\ mgmt_cmd[2] = parameters_pass /\ mgmt_user = parameters_user
          \/ /\ mgmt_status = "ST_PASS" /\ mgmt_status' = "ST_USER"
             /\ mgmt_argc = 2 /\ strcasecmp("PASS", mgmt_cmd[1]) = 0
             /\ ~(mgmt_cmd[2] = parameters_pass /\ mgmt_user = parameters_user)
      ]_vars

\* a connection has logged in
C21_Witness ==
    Connected /\ mgmt_status = "ST_CONFIG" /\ reply = send_ok("Logged in.")


\* the management command CMD with no argument
IsToggle(line) == Len(line) = 1 /\ strcasecmp("CMD", line[1]) = 0

\* the last two commands handled in CONFIG were both CMD with no argument
ToggledTwice ==
    Len(prev) = 2 /\ IsToggle(prev[1].line) /\ IsToggle(prev[2].line)

\* C22: after CMD with no argument has been issued twice in a row in CONFIG,
\* et_activated has the value it had before the first of the two, and every
\* other field of the configuration is as it was
C22_ToggleTwiceRestores == ToggledTwice => parameters = prev[1].before

\* the second of two CMD in a row has just been answered
C22_Witness ==
    /\ ToggledTwice /\ Connected
    /\ reply.kind = "ok" /\ prev[2].before.et_activated # et_activated


\* the last two commands handled in CONFIG were BAN t and UNBAN t, for the
\* same argument t, and both were answered +OK
BannedThenUnbanned ==
    /\ Len(prev) = 2
    /\ Len(prev[1].line) = 2 /\ strcasecmp("BAN", prev[1].line[1]) = 0
    /\ Len(prev[2].line) = 2 /\ strcasecmp("UNBAN", prev[2].line[1]) = 0
    /\ prev[1].line[2] = prev[2].line[2]
    /\ prev[1].reply.kind = "ok" /\ prev[2].reply.kind = "ok"

\* C23: after BAN t/s followed by UNBAN t/s, LIST prints what it would have
\* printed before the BAN, whatever the filtered set was and whether or not
\* it held t/s
C23_BanUnbanRestoresList ==
    BannedThenUnbanned =>
        get_types_list(filtered_media_types)
            = get_types_list(prev[1].before.filtered_media_types)


\* the verb of the command read last is v, whatever the case of its letters
Verb(v) == mgmt_argc >= 1 /\ strcasecmp(v, mgmt_cmd[1]) = 0

\* the command read last is one the management channel rejects in the
\* status the connection is in: a wrong number of arguments, a verb that is
\* not recognised there, or a BAN or UNBAN of something that is no media
\* type
RejectedCommand ==
    /\ mgmt_error = "PARSE_OK" /\ mgmt_argc >= 1
    /\ ~(mgmt_argc = 1 /\ Verb("QUIT"))
    /\ \/ mgmt_status = "ST_USER" /\ (mgmt_argc # 2 \/ ~Verb("USER"))
       \/ mgmt_status = "ST_PASS" /\ (mgmt_argc # 2 \/ ~Verb("PASS"))
       \/ /\ mgmt_status = "ST_CONFIG"
          /\ ~ \/ Verb("CMD") /\ mgmt_argc \in {1, 2}
               \/ Verb("MSG") /\ mgmt_argc = 2
               \/ Verb("LIST") /\ mgmt_argc = 1
               \/ Verb("STATS") /\ mgmt_argc = 1
               \/ /\ Verb("BAN") \/ Verb("UNBAN")
                  /\ mgmt_argc = 2 /\ mgmt_cmd[2] \in MediaTypes

\* a rejected command is answered -ERR and leaves the status of the
\* connection, the configuration and the connection itself as they were
C24_RejectedIsLocal ==
    [][(management_interest = "WRITE" /\ RejectedCommand) =>
          /\ reply'.kind = "err"
          /\ mgmt_status' = mgmt_status
          /\ parameters' = parameters
          /\ management_interest' = "READ"]_vars

\* C24: the handling of a command closes the management connection only
\* when the command is QUIT
C24_OnlyQuitCloses ==
    [][(management_interest = "WRITE" /\ management_interest' = "none") =>
          (mgmt_argc = 1 /\ Verb("QUIT") /\ reply' = send_ok("Goodbye."))]_vars


\* ------------------------------------------------ properties of the session
\* the capability list of the origin names PIPELINING, in either case
OriginPipelines == \E i \in 1..Len(originCapa) : originCapa[i] \in {"pipe", "PIPE"}

\* C25: however the answer to the proxy's CAPA is split across reads (a
\* capability line carries its line end, so a split before the last atom
\* falls inside \r\n.\r\n), the exchange ends the same way: the session stays
\* in CAPA exactly as long as bytes of the answer are still to come, and the
\* read that brings the last of them enters REQUEST with every byte of the
\* answer consumed and pipelining set from the capability list
C25_CapaSplitIndependent ==
    /\ (state = "CAPA" /\ last = "capa_read") => capaLeft > 0
    /\ (state = "REQUEST" /\ last = "capa_read") =>
          /\ capaLeft = 0
          /\ write_buffer = <<>>
          /\ pipelining = OriginPipelines
          /\ client_interest = "READ" /\ origin_interest = "NOOP"

\* the answer has arrived but for its last atom: the reads have split it
\* inside the terminator
C25_Witness ==
    /\ state = "CAPA" /\ last = "capa_read" /\ capaLeft = 1
    /\ response_parser.state = "response_capa"


\* the transitions of the session state machine between two different
\* states, those into ERROR apart
Transitions ==
    {<<"ORIGIN_RESOLV", "CONNECTING">>, <<"CONNECTING", "HELLO">>,
     <<"HELLO", "CAPA">>, <<"CAPA", "REQUEST">>, <<"REQUEST", "RESPONSE">>,
     <<"REQUEST", "DONE">>, <<"RESPONSE", "REQUEST">>,
     <<"RESPONSE", "EXTERNAL_TRANSFORMATION">>, <<"RESPONSE", "DONE">>,
     <<"EXTERNAL_TRANSFORMATION", "REQUEST">>,
     <<"EXTERNAL_TRANSFORMATION", "RESPONSE">>}

\* a handler of the session runs: the step is one of a handler of the state
\* machine or of the filter's pipes, not one of the resolver thread, of the
\* filter or of the origin server
HandlerRuns ==
    /\ last' \notin {"origin_resolv_blocking"}
    /\ <<state, client_interest, origin_interest, ext_read_interest,
         ext_write_interest, et, last>>
          # <<state', client_interest', origin_interest', ext_read_interest',
              ext_write_interest', et', last'>>

\* a step the state machine allows
LegalStep ==
    /\ (state' # state) =>
           (\/ <<state, state'>> \in Transitions
            \/ ~Terminal(state) /\ state' = "ERROR")
    /\ Terminal(state) => (state' = state /\ ~HandlerRuns)

\* C26: the session starts in ORIGIN_RESOLV; every change of state is one of
\* the transitions of the state machine or leads from a state that is not
\* terminal to ERROR; and once DONE or ERROR is reached the state does not
\* change and no handler of the session runs
C26_StateMachine ==
    /\ state = "ORIGIN_RESOLV"
    /\ [][LegalStep]_vars

\* the session has gone through the filter and is back in REQUEST
C26_Witness ==
    /\ state = "REQUEST" /\ last = "external_transformation_write"
    /\ clientDone = "retr"

\* the states of a session up to the end of the CAPA exchange of the proxy
BeforeRequest == {"ORIGIN_RESOLV", "CONNECTING", "HELLO", "CAPA"}

\* what a step may do to session.pipelining
PipeliningStep ==
    /\ (state = "CAPA" /\ state' = "REQUEST") => pipelining' = OriginPipelines
    /\ state \notin BeforeRequest => pipelining' = pipelining

\* C27: session.pipelining is false in every state up to the end of the CAPA
\* exchange of the proxy; the step that leaves CAPA for REQUEST sets it to
\* whether the capability list of the origin names PIPELINING, in either
\* case; and no later step changes it
C27_PipeliningFromCapa ==
    /\ [](state \in BeforeRequest => pipelining = FALSE)
    /\ [][PipeliningStep]_vars

\* the origin names the capability in lower case and the session, now with
\* pipelining on, has sent commands to the origin
C27_Witness ==
    /\ originCapa = <<"pipe">>
    /\ state = "RESPONSE" /\ pipelining

\* C28: no byte of the origin's answer to the CAPA of the proxy reaches the
\* client: when capa_read has just entered REQUEST, the buffer staged for the
\* client is empty, no byte of the answer is left unread or unparsed, and the
\* client has received bytes of the greeting and nothing else
C28_CapaAnswerNotForwarded ==
    (state = "REQUEST" /\ last = "capa_read") =>
        /\ super_buffer = <<>>
        /\ write_buffer = <<>> /\ capaLeft = 0
        /\ clientRecv # <<>>
        /\ IsPrefix(clientRecv, <<"banner", "greet">>)

\* the session has just entered REQUEST after an answer that lists two
\* capabilities
C28_Witness ==
    /\ state = "REQUEST" /\ last = "capa_read"
    /\ originCapa = <<"cap", "PIPE">>
    /\ response_parser.capa_response = <<"ok", "CAP", "PIPE", "dot">>

\* the resolver worker has been started and its completion has not been
\* handled yet: the worker, or the notification it queued, still points at
\* the session
WorkerOutstanding == resolver \in {"running", "notified"}

ResolverStep ==
    /\ resolver' = "running" => (resolver = "idle" /\ last = "init")
    /\ WorkerOutstanding =>
          /\ last' \in {"origin_resolv_blocking", "origin_resolv_done"}
          /\ (origin_resolution' # origin_resolution /\ resolver = "running")
                => last' = "origin_resolv_blocking"
    /\ (state = "ORIGIN_RESOLV" /\ state' # state) =>
          (last' = "origin_resolv_done" \/ state' = "ERROR")

\* C30: exactly one resolver worker is started for the session: once the
\* first handler has run and the session is still in ORIGIN_RESOLV a worker
\* is outstanding, and no second one is ever started; until its completion
\* is handled no read or write handler of the session runs and the reactor
\* leaves the resolution result alone; and the session leaves ORIGIN_RESOLV
\* only through the block event or an error
C30_OneResolverWorker ==
    /\ []((state = "ORIGIN_RESOLV" /\ last # "init") => WorkerOutstanding)
    /\ [][ResolverStep]_vars

\* C31: the session closes a pipe end of the filter exactly once: it never
\* closes a descriptor number it does not hold (one already closed when it
\* was unregistered, or a field no pipe end was stored in), and when the
\* session has left EXTERNAL_TRANSFORMATION no pipe end is left open
C31_DescriptorsClosedOnce ==
    /\ extern_read_fd # "misclosed" /\ extern_write_fd # "misclosed"
    /\ state # "EXTERNAL_TRANSFORMATION" =>
          (extern_read_fd # "open" /\ extern_write_fd # "open")

\* a descriptor is registered with the selector with the session as its
\* attachment: one of the two sockets or a pipe end of the filter
AnyRegistered ==
    \/ registered # {}
    \/ ext_read_interest # "unreg" \/ ext_write_interest # "unreg"

\* C32: the record is released only once every descriptor registered with
\* the session as attachment has been unregistered; while one is registered
\* the record is not released and its reference count is at least 1
C32_ReleasedAfterUnregistered ==
    /\ released # "pooled_registered"
    /\ released # "live" => ~AnyRegistered
    /\ AnyRegistered => (released = "live" /\ references >= 1)

\* a session that had both sockets registered has been torn down and its
\* record released
C32_Witness ==
    /\ state = "DONE" /\ released = "pooled"
    /\ origin_fd = "sock" /\ registered = {}

\* C33: the free-list never holds more than 50 records and pool_size, the
\* counter that enforces the cap, equals the length of the free-list
C33_PoolSizeIsLength == Len(pool) <= max_pool /\ pool_size = Len(pool)

\* C34: the configuration record (et_activated, filter_command,
\* replacement_msg, the filtered media types) changes only in a step that
\* handles a command of a management connection in state CONFIG, whose user
\* is the configured one
C34_ConfigWrittenInConfig ==
    [][parameters' # parameters =>
          /\ management_interest = "WRITE"
          /\ mgmt_status = "ST_CONFIG" /\ mgmt_user = parameters_user
          /\ reply' # no_reply
      ]_vars

\* a logged-in connection has changed the filter command
C34_Witness ==
    /\ mgmt_status = "ST_CONFIG" /\ prev # no_prev
    /\ prev[Len(prev)].before.filter_command # filter_command

====
